---- MODULE Spec2Model ----
(***************************************************************************)
(* Haven transfer core.                                                    *)
(*                                                                         *)
(*   Spec       the UDP blast transfer: the Blaster's frame slicing and    *)
(*              NACK service (haven-fast-transfer/src/sender.rs), a lossy, *)
(*              reordering, duplicating datagram network, and the          *)
(*              receiver's Vacuum -> Assembler -> Writer pipeline          *)
(*              (haven-fast-transfer/src/receiver.rs, bitfield.rs).        *)
(*   SpecRelay  the UDP relay of haven-gateway/src/udp_relay.rs.           *)
(*                                                                         *)
(* Option<T> is modelled as a sequence of length 0 (None) or 1 (Some).     *)
(* Byte sizes are scaled down: the chunk size and the frame payload are    *)
(* bounds of the model; every formula of the code that uses them is kept.  *)
(***************************************************************************)
EXTENDS Integers, Sequences, FiniteSets, TLC

VARIABLES
    \* ---- blast transfer -------------------------------------------------
    file_size,        \* ReceiverConfig.file_size = encrypted size of the file
    chunk_hashes,     \* ReceiverConfig.chunk_hashes, the declared hashes
    state,            \* ReceiverProgress.state
    cancelled,        \* ReceiverProgress.cancelled
    chunks_complete,  \* ReceiverProgress.chunks_complete
    bytes_done,       \* ReceiverProgress.bytes_done
    retransmits,      \* ReceiverProgress.retransmits
    net,              \* datagrams in flight from the Blaster to the Vacuum
    sNext,            \* Blaster: index of the next chunk to blast
    nackQ,            \* control channel: NACKs from nack_callback to the Blaster
    pcVac,            \* Vacuum thread: "idle", "recv", "send", "ok", "err"
    vacFrame,         \* Vacuum: Option of the frame it is sending on frame_tx
    frameQ,           \* the bounded frame channel (frame_tx / frame_rx)
    pcAsm,            \* Assembler thread: "idle", "top", "recv", "ok", "err"
    bitfields,        \* Assembler: Vec<Option<ChunkBitfield>>
    buffers,          \* Assembler: Vec<Option<Vec<u8>>>
    completed,        \* Assembler: Vec<bool>, as the set of true indices
    completed_count,  \* Assembler: completed_count
    scans,            \* number of NACK scans run so far
    assembledQ,       \* the bounded assembled-chunk channel
    pcWr,             \* Writer thread: "idle", "loop", "fin", "ok", "err"
    chunks_written,   \* Writer: chunks_written
    file,             \* the output file, as its sequence of bytes
    pcMain,           \* run_receiver: "start", "joinAsm", "joinWr", "retOk", "retErr"
    \* ---- history variables of the blast transfer ------------------------
    handed,           \* chunk index -> the sequence of buffers handed to the Writer
    seenFrames,       \* frames the Assembler has taken from the frame channel
    lastDup,          \* Option of the frame just taken, when it had been taken before
    mismatch,         \* the Writer found a chunk whose hash differs
    cancelInFlight,   \* the host cancelled before run_receiver returned
    \* ---- UDP relay -----------------------------------------------------
    clients,          \* UdpRelayInner.clients: address -> Option of a client
    sessions,         \* UdpRelayInner.sessions: session_id -> Option of a session
    handled,          \* number of handshake and HTP datagrams handled
    \* ---- history variables of the relay ---------------------------------
    last,             \* the handshake or HTP packet handled last, and what was sent
    handshaken,       \* addresses answered 0x00 0x01 and not removed since
    seenAddrs,        \* number of distinct addresses datagrams have come from
    seenUsers,        \* number of distinct subjects that have presented a token
    seenSessions,     \* number of distinct session ids HTP packets have carried
    \* ---- sender pipeline (run_sender) -----------------------------------
    s_chunk_count,    \* run_sender: chunk_count (= SenderProgress.chunks_total)
    s_state,          \* SenderProgress.state
    s_cancelled,      \* SenderProgress.cancelled
    s_chunks_complete,\* SenderProgress.chunks_complete
    s_retransmits,    \* SenderProgress.retransmits
    pcSMain,          \* run_sender: "start", "joinRd", "joinEnc", "joinBl", "retOk", "retErr"
    pcReader,         \* Reader thread: "idle", "run", "send", "ok", "err"
    rd_idx,           \* Reader: idx of its loop
    read_ch,          \* the bounded channel read_tx / read_rx, as chunk indices
    pcEncryptor,      \* Encryptor thread: "idle", "run", "send", "ok", "err"
    encHand,          \* Encryptor: Option of the chunk it is sending on enc_tx
    enc_ch,           \* the bounded channel enc_tx / enc_rx, as chunk indices
    pcBlaster,        \* Blaster thread: "idle", "loop", "drain", "ok", "err"
    cache,            \* Blaster: keys of the HashMap cache
    cache_order,      \* Blaster: Vec cache_order
    acked,            \* Blaster: HashSet acked
    ack_ch,           \* control channel ack_rx
    nack_ch,          \* control channel nack_rx
    \* ---- history variables of the sender pipeline -----------------------
    blasted,          \* chunk indices blast_chunk has been called for
    \* ---- a ChunkBitfield on its own ---------------------------------------
    bitfield,         \* ChunkBitfield { bits, frame_count, received_count }
    \* ---- delay-based congestion controller ---------------------------------
    cc,               \* CongestionController (with its CongestionConfig)
    cc_now,           \* the clock read by Instant::now()
    cc_ret,           \* the value returned by the last update_rate call
    \* ---- HTP transfer ------------------------------------------------------
    h_file_size,      \* size of the sender's input file
    hs,               \* run_sender: its locals and its cancelled flag
    hr,               \* run_receiver: its locals, output file and cancelled flag
    h_net,            \* datagrams on their way to the receiver's socket
    h_cmd,            \* the sender's command channel command_rx
    \* ---- history variables of the HTP transfer ------------------------------
    h_nonces,         \* nonces the encrypt calls of the transfer have used
    h_nonce_reuse,    \* number of encrypt calls whose nonce had been used before
    \* ---- history variable of the blast transfer under counted loss ----------
    dropped,          \* datagrams lost on their first transmission
    \* ---- file server: one transfer and the chunk PUTs in progress -----------
    fsrv,             \* the transfers row, its chunks rows and the stored file
    puts,             \* the upload_chunk handlers: position, arguments, locals
    nputs,            \* number of upload_chunk requests made
    \* ---- hashes of the encrypted chunks -------------------------------------
    s_chunk_hashes,   \* run_sender: chunk_hashes of the Encryptor thread
    s_hashes_json,    \* run_sender: progress.hashes_json
    upc,              \* upload_file / fast_upload_file: position, locals, progress
    \* ---- TCP relay ----------------------------------------------------------
    tcp,              \* connections map, the connections, their channels and output
    \* ---- fast download: client task, control WebSocket, server session ------
    fdl,              \* fast_download_file and handle_fast_transfer_ws
    \* ---- desktop client: one transfer over the TCP relay --------------------
    cli,              \* send_file_task, reader_loop, receive_file_task, the relay
    \* ---- blast sender: the pacing rate of the Blaster -----------------------
    pace,             \* rate_bps and the feedback it has had
    \* ---- HTP library: the session table and one transfer thread -------------
    ffi               \* SESSIONS, the caller and the thread of one session

blastVars == <<file_size, chunk_hashes, state, cancelled, chunks_complete, bytes_done,
               retransmits, net, sNext, nackQ, pcVac, vacFrame, frameQ, pcAsm,
               bitfields, buffers, completed, completed_count, scans, assembledQ,
               pcWr, chunks_written, file, pcMain, handed, seenFrames,
               lastDup, mismatch, cancelInFlight>>

relayVars == <<clients, sessions, handled, last, handshaken, seenAddrs,
               seenUsers, seenSessions>>

senderVars == <<s_chunk_count, s_state, s_cancelled, s_chunks_complete,
                s_retransmits, pcSMain, pcReader, rd_idx, read_ch, pcEncryptor,
                encHand, enc_ch, pcBlaster, cache, cache_order, acked, ack_ch,
                nack_ch, blasted>>

bfVars == <<bitfield>>

ccVars == <<cc, cc_now, cc_ret>>

htpVars == <<h_file_size, hs, hr, h_net, h_cmd, h_nonces, h_nonce_reuse>>

fsrvVars == <<fsrv, puts, nputs>>

\* the components added after the transfer pipelines
hashVars == <<s_chunk_hashes, s_hashes_json>>

lateVars == <<cli, pace, ffi>>

extVars == <<fsrvVars, hashVars, upc, tcp, fdl, lateVars>>

otherVars == <<bfVars, ccVars, htpVars, dropped, extVars>>

\* what the steps of one component leave alone: the state of the others
notBlast == <<relayVars, senderVars, otherVars>>
notRelay == <<blastVars, senderVars, otherVars>>
notSender == <<blastVars, relayVars, otherVars>>
notBitfield == <<blastVars, relayVars, senderVars, ccVars, htpVars, dropped, extVars>>
notCc == <<blastVars, relayVars, senderVars, bfVars, htpVars, dropped, extVars>>
notHtp == <<blastVars, relayVars, senderVars, bfVars, ccVars, dropped, extVars>>
pipeVars == <<blastVars, relayVars, senderVars, bfVars, ccVars, htpVars, dropped>>
notFsrv == <<pipeVars, hashVars, upc, tcp, fdl, lateVars>>
notSenderHash == <<blastVars, relayVars, bfVars, ccVars, htpVars, dropped, fsrvVars, upc,
                   tcp, fdl, lateVars>>
notUpc == <<pipeVars, fsrvVars, hashVars, tcp, fdl, lateVars>>
notTcp == <<pipeVars, fsrvVars, hashVars, upc, fdl, lateVars>>
notFdl == <<pipeVars, fsrvVars, hashVars, upc, tcp, lateVars>>
\* what a step of the download session leaves alone outside the blast transfer
notFdlBlast == <<relayVars, senderVars, bfVars, ccVars, htpVars, dropped, fsrvVars,
                 hashVars, upc, tcp, lateVars>>
earlyVars == <<pipeVars, fsrvVars, hashVars, upc, tcp, fdl>>
notCli == <<earlyVars, pace, ffi>>
notPace == <<earlyVars, cli, ffi>>
notFfi == <<earlyVars, cli, pace>>

vars == <<blastVars, relayVars, senderVars, otherVars>>

\* ------------------------------------------------------------------ bounds
MaxFileSize == 4      \* largest encrypted file size tried, in bytes
ChunkSize == 3        \* ReceiverConfig.chunk_size (encrypted chunk size), scaled
FRAME_PAYLOAD == 2    \* protocol.rs FRAME_PAYLOAD, scaled from 1400
RingCap == 1          \* protocol.rs RING_BUFFER_FRAMES, scaled from 16384
NackCap == 1          \* capacity of the NACK control channel, scaled from 256
MaxScans == 1         \* NACK scans explored

\* -------------------------------------------------------- program constants
STATE_IDLE == 0
STATE_RECEIVING == 2
STATE_COMPLETE == 3
STATE_ERROR == 4
STATE_CANCELLED == 5
WORD_BITS == 64
ASSEMBLED_CAP == 4

Min(a, b) == IF a < b THEN a ELSE b
None == <<>>
Some(x) == <<x>>
IsSome(o) == Len(o) = 1
Get(o) == o[1]

\* ------------------------------------------------------------- protocol.rs
U16(x) == x % 65536

frames_for_chunk(encrypted_size) ==
    U16((encrypted_size + FRAME_PAYLOAD - 1) \div FRAME_PAYLOAD)

MAX_FRAMES_PER_CHUNK == (ChunkSize + FRAME_PAYLOAD - 1) \div FRAME_PAYLOAD

\* A datagram is the sequence of its cells: one cell for each of the header fields
\* chunk_index (u32), frame_index (u16) and frame_count (u16), then the payload
\* bytes. The transfer id, the same in every datagram of the one transfer modelled,
\* is left out.
FRAME_HEADER == 3

encode_frame(chunk_index, frame_index, frame_count, payload) ==
    <<chunk_index, U16(frame_index), U16(frame_count)>> \o payload

\* Option of the header
decode_frame_header(data) ==
    IF Len(data) < FRAME_HEADER THEN None
    ELSE Some([chunk_index |-> data[1], frame_index |-> data[2],
               frame_count |-> data[3]])

frame_payload(data) == SubSeq(data, FRAME_HEADER + 1, Len(data))

\* what the Vacuum puts on the frame channel: the header fields and the payload
Frame(chunk_index, frame_index, frame_count, payload) ==
    [chunk_index |-> chunk_index, frame_index |-> frame_index,
     frame_count |-> frame_count, payload |-> payload]

\* ------------------------------------------------------------- the sender
\* chunk_count of a file, as the senders compute it
ChunkCountOf(fs) == IF fs = 0 THEN 1 ELSE (fs + ChunkSize - 1) \div ChunkSize

chunk_count == ChunkCountOf(file_size)
Chunks == 0 .. (chunk_count - 1)

\* length of the sender's encrypted chunk idx
EncLen(idx) == Min(file_size - idx * ChunkSize, ChunkSize)

\* the sender's encrypted bytes of chunk idx: every byte of the file is told
\* apart by its position, and none is the zero a fresh buffer holds
EncData(idx) == [p \in 1 .. EncLen(idx) |-> idx * ChunkSize + p]

\* SHA-256 followed by hex::encode, as an injective function of the bytes
Sha256Hex(data) == <<"sha256", data>>

RECURSIVE BlastFrom(_, _, _, _, _)
BlastFrom(chunk_index, data, frame_count, frame_idx, offset) ==
    IF frame_idx >= frame_count THEN {}
    ELSE LET end == Min(offset + FRAME_PAYLOAD, Len(data))
             payload == SubSeq(data, offset + 1, end)
         IN  {encode_frame(chunk_index, frame_idx, frame_count, payload)}
                 \cup BlastFrom(chunk_index, data, frame_count, frame_idx + 1, end)

\* the datagrams blast_chunk sends for one chunk
blast_chunk(chunk_index, data, frame_count) ==
    BlastFrom(chunk_index, data, frame_count, 0, 0)

\* the datagrams retransmit_frames sends for one NACK
retransmit_frames(chunk_index, data, frame_count, missing_frames) ==
    { encode_frame(chunk_index, k, frame_count,
                   SubSeq(data, k * FRAME_PAYLOAD + 1,
                          Min(k * FRAME_PAYLOAD + FRAME_PAYLOAD, Len(data)))) :
        k \in { i \in missing_frames :
                    i < frame_count /\ i * FRAME_PAYLOAD < Len(data) } }

\* ------------------------------------------------------------- bitfield.rs
BITFIELD_WORDS == (MAX_FRAMES_PER_CHUNK + 63) \div WORD_BITS

\* ChunkBitfield::new; the words of `bits` are kept as the set of set bit indices
ChunkBitfield_new(frame_count) ==
    [bits |-> {}, frame_count |-> frame_count, received_count |-> 0]

\* ChunkBitfield::set without the test of the bit: every call counts as new
ChunkBitfield_set_noTest(bf, frame_index) ==
    LET word == frame_index \div WORD_BITS
    IN  IF word >= BITFIELD_WORDS THEN [bf |-> bf, was_new |-> FALSE]
        ELSE [bf |-> [bf EXCEPT !.bits = @ \cup {frame_index},
                                !.received_count = @ + 1],
              was_new |-> TRUE]

\* ChunkBitfield::set: the bitfield after the call, and the value returned
ChunkBitfield_set(bf, frame_index) ==
    LET word == frame_index \div WORD_BITS
    IN  IF word >= BITFIELD_WORDS THEN [bf |-> bf, was_new |-> FALSE]
        ELSE IF frame_index \in bf.bits THEN [bf |-> bf, was_new |-> FALSE]
        ELSE [bf |-> [bf EXCEPT !.bits = @ \cup {frame_index},
                                !.received_count = @ + 1],
              was_new |-> TRUE]

ChunkBitfield_get(bf, frame_index) ==
    IF frame_index \div WORD_BITS >= BITFIELD_WORDS THEN FALSE
    ELSE frame_index \in bf.bits

is_complete(bf) == bf.received_count >= bf.frame_count

RECURSIVE MissingFrom(_, _)
MissingFrom(bf, i) ==
    IF i >= bf.frame_count THEN <<>>
    ELSE (IF ~ChunkBitfield_get(bf, i) THEN <<i>> ELSE <<>>) \o MissingFrom(bf, i + 1)

\* ChunkBitfield::missing_frames: the clear indices below frame_count, ascending
missing_frames(bf) == MissingFrom(bf, 0)

SeqToSet(s) == { s[i] : i \in 1 .. Len(s) }

\* ------------------------------------------------------- receiver: Assembler
\* expected size of chunk cidx, from the receiver's configuration
this_chunk_size(cidx) ==
    IF cidx = chunk_count - 1 THEN file_size - cidx * ChunkSize ELSE ChunkSize

Zeros(n) == [i \in 1 .. n |-> 0]

\* CopyPayload with the offset taken from the length of the payload in hand
CopyPayload_payloadLenOffset(buf, frame_index, payload) ==
    LET offset == frame_index * Len(payload)
        end == Min(offset + Len(payload), Len(buf))
        copy_len == end - offset
    IN  [i \in 1 .. Len(buf) |->
            IF i > offset /\ i <= offset + copy_len THEN payload[i - offset] ELSE buf[i]]

\* copy of a new frame's payload into the chunk buffer at frame_index * FRAME_PAYLOAD
CopyPayload(buf, frame_index, payload) ==
    LET offset == frame_index * FRAME_PAYLOAD
        end == Min(offset + Len(payload), Len(buf))
        copy_len == end - offset
    IN  [i \in 1 .. Len(buf) |->
            IF i > offset /\ i <= offset + copy_len THEN payload[i - offset] ELSE buf[i]]

\* the NACKs one scan raises, in chunk order, given the Assembler's state
RECURSIVE ScanFrom(_, _, _)
ScanFrom(bfs, compl, cidx) ==
    IF cidx >= chunk_count THEN <<>>
    ELSE LET rest == ScanFrom(bfs, compl, cidx + 1)
         IN  IF cidx \in compl \/ ~IsSome(bfs[cidx]) THEN rest
             ELSE LET bf == Get(bfs[cidx])
                      missing == missing_frames(bf)
                  IN  IF bf.received_count > 0 /\ ~is_complete(bf) /\ missing # <<>>
                      THEN <<[chunk_index |-> cidx, missing_frames |-> missing]>> \o rest
                      ELSE rest

NackScan(bfs, compl) == ScanFrom(bfs, compl, 0)

\* nack_callback of the callers: try_send on a bounded channel, dropped when full
RECURSIVE nack_callback(_, _)
nack_callback(q, nacks) ==
    IF nacks = <<>> THEN q
    ELSE nack_callback(IF Len(q) < NackCap THEN Append(q, Head(nacks)) ELSE q,
                       Tail(nacks))

RECURSIVE SumMissing(_)
SumMissing(nacks) ==
    IF nacks = <<>> THEN 0
    ELSE Len(Head(nacks).missing_frames) + SumMissing(Tail(nacks))

\* the (chunk, frame) pairs a list of NACKs names
NamedBy(nacks) ==
    UNION { { <<nacks[i].chunk_index, k>> : k \in SeqToSet(nacks[i].missing_frames) } :
            i \in 1 .. Len(nacks) }

\* ------------------------------------------------------------------- Init
WrongHash == Sha256Hex(<<0>>)

\* run_receiver not yet called, nothing sent
BlastAtStart ==
    /\ state = STATE_IDLE
    /\ cancelled = 0
    /\ chunks_complete = 0
    /\ bytes_done = 0
    /\ retransmits = 0
    /\ net = {}
    /\ sNext = 0
    /\ nackQ = <<>>
    /\ pcVac = "idle"
    /\ vacFrame = None
    /\ frameQ = <<>>
    /\ pcAsm = "idle"
    /\ bitfields = [c \in 0 .. (ChunkCountOf(file_size) - 1) |-> None]
    /\ buffers = [c \in 0 .. (ChunkCountOf(file_size) - 1) |-> None]
    /\ completed = {}
    /\ completed_count = 0
    /\ scans = 0
    /\ assembledQ = <<>>
    /\ pcWr = "idle"
    /\ chunks_written = 0
    /\ file = <<>>
    /\ pcMain = "start"
    /\ handed = [c \in 0 .. (ChunkCountOf(file_size) - 1) |-> <<>>]
    /\ seenFrames = {}
    /\ lastDup = None
    /\ mismatch = FALSE
    /\ cancelInFlight = FALSE

InitBlast ==
    /\ file_size \in 1 .. MaxFileSize
    /\ \E bad \in (-1) .. (ChunkCountOf(file_size) - 1) :
           chunk_hashes = [i \in 1 .. ChunkCountOf(file_size) |->
                              IF i - 1 = bad THEN WrongHash
                              ELSE Sha256Hex(EncData(i - 1))]
    /\ BlastAtStart

Returned == pcMain \in {"retOk", "retErr"}

\* The receiving socket belongs to the Vacuum thread and is closed when the thread
\* returns: the datagrams in flight are discarded, and those sent later go nowhere.
VacGone == pcVac \in {"ok", "err"}

\* the datagrams in flight after the Blaster has sent `frames`
Sent(frames) == IF VacGone THEN {} ELSE net \cup frames

\* --------------------------------------------------------- sender: Blaster
\* one iteration of the Blaster's chunk loop: cache the chunk, blast its frames,
\* then serve every NACK that is pending for a cached chunk
SenderBlast ==
    /\ sNext < chunk_count
    /\ LET data == EncData(sNext)
           cached == 0 .. sNext
           served == UNION { retransmit_frames(nackQ[i].chunk_index,
                                 EncData(nackQ[i].chunk_index),
                                 frames_for_chunk(Len(EncData(nackQ[i].chunk_index))),
                                 SeqToSet(nackQ[i].missing_frames)) :
                             i \in { j \in 1 .. Len(nackQ) :
                                         nackQ[j].chunk_index \in cached } }
       IN  net' = Sent(blast_chunk(sNext, data, frames_for_chunk(Len(data)))
                           \cup served)
    /\ nackQ' = <<>>
    /\ sNext' = sNext + 1
    /\ UNCHANGED <<file_size, chunk_hashes, state, cancelled, chunks_complete,
                   bytes_done, retransmits, pcVac, vacFrame, frameQ, pcAsm,
                   bitfields, buffers, completed, completed_count, scans,
                   assembledQ, pcWr, chunks_written, file, pcMain, handed,
                   seenFrames, lastDup, mismatch, cancelInFlight>>
    /\ UNCHANGED notBlast

\* the drain phase: one NACK taken from the control channel and served from the cache
SenderDrainNack ==
    /\ sNext >= chunk_count
    /\ nackQ # <<>>
    /\ LET nack == Head(nackQ)
           data == EncData(nack.chunk_index)
       IN  net' = Sent(retransmit_frames(nack.chunk_index, data,
                                          frames_for_chunk(Len(data)),
                                          SeqToSet(nack.missing_frames)))
    /\ nackQ' = Tail(nackQ)
    /\ UNCHANGED <<file_size, chunk_hashes, state, cancelled, chunks_complete,
                   bytes_done, retransmits, sNext, pcVac, vacFrame, frameQ, pcAsm,
                   bitfields, buffers, completed, completed_count, scans,
                   assembledQ, pcWr, chunks_written, file, pcMain, handed,
                   seenFrames, lastDup, mismatch, cancelInFlight>>
    /\ UNCHANGED notBlast

\* ------------------------------------------------------------- the network
\* a datagram in flight is lost
Lose ==
    /\ \E f \in net : net' = net \ {f}
    /\ UNCHANGED <<file_size, chunk_hashes, state, cancelled, chunks_complete,
                   bytes_done, retransmits, sNext, nackQ, pcVac, vacFrame, frameQ,
                   pcAsm, bitfields, buffers, completed, completed_count, scans,
                   assembledQ, pcWr, chunks_written, file, pcMain, handed,
                   seenFrames, lastDup, mismatch, cancelInFlight>>
    /\ UNCHANGED notBlast

\* a datagram is lost on its first transmission: no NACK has been raised, so
\* nothing has been retransmitted, and the receiver has not had the frame
LoseFirst ==
    /\ scans = 0
    /\ nackQ = <<>>
    /\ \E data \in net :
          LET header == decode_frame_header(data)
              f == Frame(Get(header).chunk_index, Get(header).frame_index,
                         Get(header).frame_count, frame_payload(data))
          IN  /\ IsSome(header)
              /\ f \notin seenFrames
              /\ f \notin SeqToSet(frameQ)
              /\ vacFrame # Some(f)
              /\ net' = net \ {data}
    /\ dropped' = dropped + 1
    /\ UNCHANGED <<file_size, chunk_hashes, state, cancelled, chunks_complete,
                   bytes_done, retransmits, sNext, nackQ, pcVac, vacFrame, frameQ,
                   pcAsm, bitfields, buffers, completed, completed_count, scans,
                   assembledQ, pcWr, chunks_written, file, pcMain, handed,
                   seenFrames, lastDup, mismatch, cancelInFlight>>
    /\ UNCHANGED <<relayVars, senderVars, bfVars, ccVars, htpVars, extVars>>

\* ------------------------------------------------------------------- host
\* the host publishes the cancelled flag
Cancel ==
    /\ cancelled = 0
    /\ cancelled' = 1
    /\ cancelInFlight' = ~Returned
    /\ UNCHANGED <<file_size, chunk_hashes, state, chunks_complete, bytes_done,
                   retransmits, net, sNext, nackQ, pcVac, vacFrame, frameQ, pcAsm,
                   bitfields, buffers, completed, completed_count, scans,
                   assembledQ, pcWr, chunks_written, file, pcMain, handed,
                   seenFrames, lastDup, mismatch>>
    /\ UNCHANGED notBlast

\* ----------------------------------------------------- run_receiver: main
\* run_receiver up to the spawning of the three threads
Start ==
    /\ pcMain = "start"
    /\ state' = STATE_RECEIVING
    /\ file' = Zeros(file_size)
    /\ pcVac' = "recv"
    /\ pcAsm' = "top"
    /\ pcWr' = "loop"
    /\ pcMain' = "joinAsm"
    /\ UNCHANGED <<file_size, chunk_hashes, cancelled, chunks_complete, bytes_done,
                   retransmits, net, sNext, nackQ, vacFrame, frameQ, bitfields,
                   buffers, completed, completed_count, scans, assembledQ,
                   chunks_written, handed, seenFrames, lastDup, mismatch,
                   cancelInFlight>>
    /\ UNCHANGED notBlast

\* assembler_handle.join()??, then the store that signals the Vacuum
MainJoinAsm ==
    /\ pcMain = "joinAsm"
    /\ pcAsm \in {"ok", "err"}
    /\ IF pcAsm = "ok"
       THEN state' = STATE_COMPLETE /\ pcMain' = "joinWr"
       ELSE state' = state /\ pcMain' = "retErr"
    /\ UNCHANGED <<file_size, chunk_hashes, cancelled, chunks_complete, bytes_done,
                   retransmits, net, sNext, nackQ, pcVac, vacFrame, frameQ, pcAsm,
                   bitfields, buffers, completed, completed_count, scans,
                   assembledQ, pcWr, chunks_written, file, handed, seenFrames, lastDup, mismatch, cancelInFlight>>
    /\ UNCHANGED notBlast

\* writer_handle.join()??, then Ok(bound_addr)
MainJoinWr ==
    /\ pcMain = "joinWr"
    /\ pcWr \in {"ok", "err"}
    /\ pcMain' = IF pcWr = "ok" THEN "retOk" ELSE "retErr"
    /\ UNCHANGED <<file_size, chunk_hashes, state, cancelled, chunks_complete,
                   bytes_done, retransmits, net, sNext, nackQ, pcVac, vacFrame,
                   frameQ, pcAsm, bitfields, buffers, completed, completed_count,
                   scans, assembledQ, pcWr, chunks_written, file, handed,
                   seenFrames, lastDup, mismatch, cancelInFlight>>
    /\ UNCHANGED notBlast

\* ------------------------------------------------------- receiver: Vacuum
\* one iteration of the Vacuum loop that reads a datagram: the cancellation and
\* completion checks, recv_from (a read that times out changes nothing), then
\* frame_tx.send, which returns at once when the channel has room, fails when the
\* Assembler is gone, and otherwise leaves the Vacuum blocked with the frame in hand.
\* The network may deliver the datagram again later (keep = TRUE).
VacRecv ==
    /\ pcVac = "recv"
    /\ cancelled = 0
    /\ state # STATE_COMPLETE
    /\ \E data \in net, keep \in BOOLEAN :
           LET header == decode_frame_header(data)
               f == Frame(Get(header).chunk_index, Get(header).frame_index,
                          Get(header).frame_count, frame_payload(data))
           IN
           IF ~IsSome(header)
           THEN /\ net' = IF keep THEN net ELSE net \ {data}
                /\ UNCHANGED <<pcVac, vacFrame, frameQ>>
           ELSE IF pcAsm \in {"ok", "err"}
           THEN pcVac' = "ok" /\ vacFrame' = None /\ frameQ' = frameQ /\ net' = {}
           ELSE /\ net' = IF keep THEN net ELSE net \ {data}
                /\ IF Len(frameQ) < RingCap
                   THEN /\ pcVac' = "recv"
                        /\ vacFrame' = None
                        /\ frameQ' = Append(frameQ, f)
                   ELSE /\ pcVac' = "send"
                        /\ vacFrame' = Some(f)
                        /\ frameQ' = frameQ
    /\ UNCHANGED <<file_size, chunk_hashes, state, cancelled, chunks_complete,
                   bytes_done, retransmits, sNext, nackQ, pcAsm, bitfields,
                   buffers, completed, completed_count, scans, assembledQ, pcWr,
                   chunks_written, file, pcMain, handed, seenFrames, lastDup,
                   mismatch, cancelInFlight>>
    /\ UNCHANGED notBlast

\* the Vacuum loop's exits: Err("Cancelled") or Ok on STATE_COMPLETE
VacExit ==
    /\ pcVac = "recv"
    /\ cancelled # 0 \/ state = STATE_COMPLETE
    /\ pcVac' = IF cancelled # 0 THEN "err" ELSE "ok"
    /\ net' = {}
    /\ UNCHANGED <<file_size, chunk_hashes, state, cancelled, chunks_complete,
                   bytes_done, retransmits, sNext, nackQ, vacFrame, frameQ,
                   pcAsm, bitfields, buffers, completed, completed_count, scans,
                   assembledQ, pcWr, chunks_written, file, pcMain, handed,
                   seenFrames, lastDup, mismatch, cancelInFlight>>
    /\ UNCHANGED notBlast

\* the blocked frame_tx.send returns: room in the channel, or the Assembler gone
VacSend ==
    /\ pcVac = "send"
    /\ IF pcAsm \in {"ok", "err"}
       THEN /\ pcVac' = "ok"
            /\ frameQ' = frameQ
            /\ net' = {}
       ELSE /\ Len(frameQ) < RingCap
            /\ frameQ' = Append(frameQ, Get(vacFrame))
            /\ pcVac' = "recv"
            /\ net' = net
    /\ vacFrame' = None
    /\ UNCHANGED <<file_size, chunk_hashes, state, cancelled, chunks_complete,
                   bytes_done, retransmits, sNext, nackQ, pcAsm, bitfields,
                   buffers, completed, completed_count, scans, assembledQ, pcWr,
                   chunks_written, file, pcMain, handed, seenFrames, lastDup,
                   mismatch, cancelInFlight>>
    /\ UNCHANGED notBlast

\* ------------------------------------------- datagrams of any other origin
MaxForgedIndex == 2   \* largest frame_index of a datagram not from the sender
MaxForgedCount == 2   \* largest frame_count of such a datagram
ForgedByte == 7       \* the byte such a datagram's payload is made of
MaxForged == 0        \* frames the Assembler has taken when the last such datagram arrives

\* datagrams that carry the transfer's id and any other header and payload
ForgedFrames ==
    { encode_frame(c, fi, fc, [i \in 1 .. n |-> ForgedByte]) :
        c \in 0 .. chunk_count - 1, fi \in 0 .. MaxForgedIndex,
        fc \in 1 .. MaxForgedCount, n \in {0, FRAME_PAYLOAD} }

\* a datagram with the transfer's id arrives at the receiving socket from
\* somewhere else than the Blaster
ForgeFrame ==
    /\ net = {}
    /\ ~VacGone
    /\ Cardinality(seenFrames) <= MaxForged
    /\ \E data \in ForgedFrames : net' = {data}
    /\ UNCHANGED <<file_size, chunk_hashes, state, cancelled, chunks_complete,
                   bytes_done, retransmits, sNext, nackQ, pcVac, vacFrame,
                   frameQ, pcAsm, bitfields, buffers, completed,
                   completed_count, scans, assembledQ, pcWr, chunks_written,
                   file, pcMain, handed, seenFrames, lastDup, mismatch,
                   cancelInFlight>>
    /\ UNCHANGED notBlast

\* ---------------------------------------------------- receiver: Assembler
\* top of the Assembler loop: the cancellation check and the completion check; when
\* the thread returns, frame_rx is dropped, and with it the frames still queued
AsmTop ==
    /\ pcAsm = "top"
    /\ IF cancelled # 0
       THEN pcAsm' = "err" /\ state' = state /\ frameQ' = <<>>
       ELSE IF completed_count >= chunk_count
            THEN pcAsm' = "ok" /\ state' = STATE_COMPLETE /\ frameQ' = <<>>
            ELSE pcAsm' = "recv" /\ state' = state /\ frameQ' = frameQ
    /\ lastDup' = None
    /\ UNCHANGED <<file_size, chunk_hashes, cancelled, chunks_complete, bytes_done,
                   retransmits, net, sNext, nackQ, pcVac, vacFrame,
                   bitfields, buffers, completed, completed_count, scans,
                   assembledQ, pcWr, chunks_written, file, pcMain, handed,
                   seenFrames, mismatch, cancelInFlight>>
    /\ UNCHANGED notBlast

\* the Assembler's state after one frame: bitfield and buffer created on the first
\* frame of the chunk, the payload copied when the bit is new, the chunk moved out
\* when the bitfield completes (out = Some of the AssembledChunk to send)
AsmOnFrame(f) ==
    LET cidx == f.chunk_index
        same == [bitfields |-> bitfields, buffers |-> buffers,
                 completed |-> completed, completed_count |-> completed_count,
                 out |-> None]
    IN  IF cidx >= chunk_count \/ cidx \in completed THEN same
        ELSE LET fresh == ~IsSome(bitfields[cidx])
                 bf0 == IF fresh THEN ChunkBitfield_new(f.frame_count)
                        ELSE Get(bitfields[cidx])
                 buf0 == IF fresh THEN Zeros(this_chunk_size(cidx))
                         ELSE Get(buffers[cidx])
                 r == ChunkBitfield_set(bf0, f.frame_index)
                 buf1 == IF r.was_new THEN CopyPayload(buf0, f.frame_index, f.payload)
                         ELSE buf0
             IN  IF is_complete(r.bf)
                 THEN [bitfields |-> [bitfields EXCEPT ![cidx] = None],
                       buffers |-> [buffers EXCEPT ![cidx] = None],
                       completed |-> completed \cup {cidx},
                       completed_count |-> completed_count + 1,
                       out |-> Some([chunk_index |-> cidx, data |-> buf1])]
                 ELSE [bitfields |-> [bitfields EXCEPT ![cidx] = Some(r.bf)],
                       buffers |-> [buffers EXCEPT ![cidx] = Some(buf1)],
                       completed |-> completed,
                       completed_count |-> completed_count,
                       out |-> None]

\* the copy of CopyPayload panics: with the offset past the end of the buffer,
\* `end - offset` is below zero in usize (a panic where overflow is checked) and
\* otherwise wraps, and the range offset .. offset + copy_len then ends before
\* it starts
CopyPanics(buf, frame_index, payload) ==
    frame_index * FRAME_PAYLOAD > Len(buf)

\* the Assembler panics on frame f
AsmPanics(f) ==
    LET cidx == f.chunk_index
    IN  /\ cidx < chunk_count
        /\ cidx \notin completed
        /\ LET fresh == ~IsSome(bitfields[cidx])
               bf0 == IF fresh THEN ChunkBitfield_new(f.frame_count)
                      ELSE Get(bitfields[cidx])
               buf0 == IF fresh THEN Zeros(this_chunk_size(cidx))
                       ELSE Get(buffers[cidx])
           IN  /\ ChunkBitfield_set(bf0, f.frame_index).was_new
               /\ CopyPanics(buf0, f.frame_index, f.payload)

\* the periodic NACK scan over the Assembler state (bfs, compl)
DoScan(bfs, compl) ==
    LET nacks == NackScan(bfs, compl)
    IN  /\ nacks = <<>> \/ scans < MaxScans
        /\ scans' = IF nacks = <<>> THEN scans ELSE scans + 1
        /\ retransmits' = retransmits + SumMissing(nacks)
        /\ nackQ' = nack_callback(nackQ, nacks)

\* recv_timeout returns a frame; the scan follows when its interval has elapsed
AsmFrame ==
    /\ pcAsm = "recv"
    /\ frameQ # <<>>
    /\ LET f == Head(frameQ)
           a == AsmOnFrame(f)
       IN  IF AsmPanics(f)
            THEN \* the thread ends in a panic; frame_rx is dropped with it
                 /\ pcAsm' = "err"
                 /\ frameQ' = <<>>
                 /\ UNCHANGED <<seenFrames, lastDup, bitfields, buffers,
                                completed, completed_count, assembledQ, handed,
                                scans, retransmits, nackQ>>
            ELSE /\ frameQ' = IF IsSome(a.out) /\ pcWr \in {"ok", "err"}
                               THEN <<>> ELSE Tail(frameQ)
                 /\ seenFrames' = seenFrames \cup {f}
                 /\ lastDup' = IF f \in seenFrames THEN Some(f) ELSE None
                 /\ bitfields' = a.bitfields
                 /\ buffers' = a.buffers
                 /\ completed' = a.completed
                 /\ completed_count' = a.completed_count
                 /\ IF IsSome(a.out) /\ pcWr \in {"ok", "err"}
                    THEN \* assembled_tx.send fails: Err("Assembled channel closed")
                         /\ pcAsm' = "err"
                         /\ UNCHANGED <<assembledQ, handed, scans, retransmits, nackQ>>
                    ELSE /\ IsSome(a.out) => Len(assembledQ) < ASSEMBLED_CAP
                         /\ assembledQ' = IF IsSome(a.out)
                                          THEN Append(assembledQ, Get(a.out))
                                          ELSE assembledQ
                         /\ handed' = IF IsSome(a.out)
                                      THEN [handed EXCEPT ![f.chunk_index] =
                                                Append(@, Get(a.out).data)]
                                      ELSE handed
                         /\ pcAsm' = "top"
                         \* a frame of a chunk out of range or completed: `continue`
                         /\ \/ /\ f.chunk_index < chunk_count
                               /\ f.chunk_index \notin completed
                               /\ DoScan(a.bitfields, a.completed)
                            \/ UNCHANGED <<scans, retransmits, nackQ>>
    /\ UNCHANGED <<file_size, chunk_hashes, state, cancelled, chunks_complete,
                   bytes_done, net, sNext, pcVac, vacFrame, pcWr, chunks_written,
                   file, pcMain, mismatch, cancelInFlight>>
    /\ UNCHANGED notBlast

\* recv_timeout times out after NACK_SCAN_INTERVAL_MS: the scan runs
AsmTimeout ==
    /\ pcAsm = "recv"
    /\ frameQ = <<>>
    /\ pcVac \notin {"ok", "err"}
    /\ DoScan(bitfields, completed)
    /\ pcAsm' = "top"
    /\ UNCHANGED <<file_size, chunk_hashes, state, cancelled, chunks_complete,
                   bytes_done, net, sNext, pcVac, vacFrame, frameQ, bitfields,
                   buffers, completed, completed_count, assembledQ, pcWr,
                   chunks_written, file, pcMain, handed, seenFrames, lastDup, mismatch,
                   cancelInFlight>>
    /\ UNCHANGED notBlast

\* recv_timeout finds the channel empty and the Vacuum gone: the Assembler returns Ok
AsmDisconnected ==
    /\ pcAsm = "recv"
    /\ frameQ = <<>>
    /\ pcVac \in {"ok", "err"}
    /\ pcAsm' = "ok"
    /\ UNCHANGED <<file_size, chunk_hashes, state, cancelled, chunks_complete,
                   bytes_done, retransmits, net, sNext, nackQ, pcVac, vacFrame,
                   frameQ, bitfields, buffers, completed, completed_count, scans,
                   assembledQ, pcWr, chunks_written, file, pcMain, handed,
                   seenFrames, lastDup, mismatch, cancelInFlight>>
    /\ UNCHANGED notBlast

\* ------------------------------------------------------- receiver: Writer
WriteAt(f, offset, data) ==
    [i \in 1 .. (IF offset + Len(data) > Len(f) THEN offset + Len(data) ELSE Len(f)) |->
        IF i > offset /\ i <= offset + Len(data) THEN data[i - offset]
        ELSE IF i <= Len(f) THEN f[i] ELSE 0]

\* the hash check of one assembled chunk
hash_match(cidx, data) ==
    IF cidx < Len(chunk_hashes) THEN Sha256Hex(data) = chunk_hashes[cidx + 1] ELSE FALSE

\* one iteration of the Writer loop over assembled_rx; when the thread returns an
\* error, assembled_rx is dropped, and with it the chunks still queued
WrChunk ==
    /\ pcWr = "loop"
    /\ assembledQ # <<>>
    /\ LET assembled == Head(assembledQ)
           cidx == assembled.chunk_index
       IN  IF cancelled # 0
           THEN /\ pcWr' = "err"
                /\ assembledQ' = <<>>
                /\ UNCHANGED <<file, bytes_done, chunks_complete, chunks_written,
                               mismatch>>
           ELSE IF ~hash_match(cidx, assembled.data)
           THEN /\ pcWr' = "err"
                /\ assembledQ' = <<>>
                /\ mismatch' = TRUE
                /\ UNCHANGED <<file, bytes_done, chunks_complete, chunks_written>>
           ELSE /\ assembledQ' = Tail(assembledQ)
                /\ file' = WriteAt(file, cidx * ChunkSize, assembled.data)
                /\ bytes_done' = bytes_done + Len(assembled.data)
                /\ chunks_complete' = chunks_complete + 1
                /\ chunks_written' = chunks_written + 1
                /\ pcWr' = IF chunks_written + 1 >= chunk_count THEN "fin" ELSE "loop"
                /\ UNCHANGED mismatch
    /\ UNCHANGED <<file_size, chunk_hashes, state, cancelled, retransmits, net,
                   sNext, nackQ, pcVac, vacFrame, frameQ, pcAsm, bitfields, buffers,
                   completed, completed_count, scans, pcMain, handed, seenFrames, lastDup, cancelInFlight>>
    /\ UNCHANGED notBlast

\* the loop over assembled_rx ends because the Assembler has dropped assembled_tx
WrClosed ==
    /\ pcWr = "loop"
    /\ assembledQ = <<>>
    /\ pcAsm \in {"ok", "err"}
    /\ pcWr' = "fin"
    /\ UNCHANGED <<file_size, chunk_hashes, state, cancelled, chunks_complete,
                   bytes_done, retransmits, net, sNext, nackQ, pcVac, vacFrame,
                   frameQ, pcAsm, bitfields, buffers, completed, completed_count,
                   scans, assembledQ, chunks_written, file, pcMain, handed,
                   seenFrames, lastDup, mismatch, cancelInFlight>>
    /\ UNCHANGED notBlast

\* after the loop: the store of STATE_COMPLETE, then Ok(())
WrFinish ==
    /\ pcWr = "fin"
    /\ state' = STATE_COMPLETE
    /\ pcWr' = "ok"
    /\ UNCHANGED <<file_size, chunk_hashes, cancelled, chunks_complete, bytes_done,
                   retransmits, net, sNext, nackQ, pcVac, vacFrame, frameQ, pcAsm,
                   bitfields, buffers, completed, completed_count, scans,
                   assembledQ, chunks_written, file, pcMain, handed, seenFrames, lastDup, mismatch, cancelInFlight>>
    /\ UNCHANGED notBlast

\* ================================================================ UDP relay
\* ------------------------------------------------------------ relay bounds
NumUsers == 3         \* subjects that hold a bearer token
NumAddrs == 3         \* source addresses packets arrive from
NumSessions == 1      \* session ids carried by HTP packets
MaxPackets == 6       \* handshake and HTP datagrams handled by the relay

\* --------------------------------------------------------- relay constants
SESSION_TIMEOUT_SECS == 60
CLEANUP_INTERVAL_SECS == 30

Users == 1 .. NumUsers
Addrs == 1 .. NumAddrs
SessionIds == 1 .. NumSessions

AUTH_FAIL == <<0, 0>>
AUTH_OK == <<0, 1>>

\* the handshake datagrams tried: too short for a length field, a length field
\* that is zero, too large or beyond the datagram, bytes that are not UTF-8, a
\* token that does not verify or has expired, and a valid token of subject sub
AuthForms == {"short", "badlen", "notutf8", "badjwt", "valid"}

AuthPacket(form, sub) == [form |-> form, sub |-> sub]

\* The relay only compares addresses, subjects and session ids for equality, so
\* the datagrams tried take a new address, subject or session id in increasing
\* order.
NextAddrs == 1 .. Min(NumAddrs, seenAddrs + 1)
NextUsers == 1 .. Min(NumUsers, seenUsers + 1)
NextSessionIds == 1 .. Min(NumSessions, seenSessions + 1)

Max(a, b) == IF a > b THEN a ELSE b

AuthPackets ==
    { AuthPacket(form, 0) : form \in AuthForms \ {"valid"} }
        \cup { AuthPacket("valid", u) : u \in NextUsers }

\* handle_auth up to the decoded claims: Some(claims.sub), or None for a reply of
\* 0x00 0x00
decode_claims(pkt) ==
    IF pkt.form = "short" THEN None
    ELSE IF pkt.form = "badlen" THEN None
    ELSE IF pkt.form = "notutf8" THEN None
    ELSE IF pkt.form = "badjwt" THEN None
    ELSE Some(pkt.sub)

\* the two sides of a session
Sides(session) ==
    IF IsSome(session)
    THEN Some([side_a |-> Get(session).side_a, side_b |-> Get(session).side_b])
    ELSE None

\* the record of one handled packet: where it came from, the reply and the
\* forward it caused, the sides before it, and whether the packet handled just
\* before it was a refused handshake from the same address
Handled(kind, src, sid, sender, reply, dest, created, joined, before) ==
    [kind |-> kind, src |-> src, sid |-> sid, sender |-> sender, reply |-> reply,
     dest |-> dest, created |-> created, joined |-> joined,
     before |-> Sides(before),
     after_refusal |-> kind = "htp" /\ last.kind = "auth" /\ last.src = src
                          /\ last.reply = <<<<0, 0>>>>]

InitRelay ==
    /\ clients = [a \in Addrs |-> None]
    /\ sessions = [i \in SessionIds |-> None]
    /\ handled = 0
    /\ last = Handled("none", 0, 0, None, None, None, FALSE, FALSE, None)
    /\ handshaken = {}
    /\ seenAddrs = 0
    /\ seenUsers = 0
    /\ seenSessions = 0

\* ------------------------------------------------------------- handle_auth
handle_auth(src, pkt) ==
    LET sub == decode_claims(pkt)
    IN  /\ IF IsSome(sub)
           THEN /\ clients' = [clients EXCEPT ![src] =
                                   Some([user_id |-> Get(sub), last_seen |-> 0])]
                /\ handshaken' = handshaken \cup {src}
                /\ last' = Handled("auth", src, 0, sub, Some(AUTH_OK), None,
                                   FALSE, FALSE, None)
           ELSE /\ clients' = clients
                /\ handshaken' = handshaken
                /\ last' = Handled("auth", src, 0, None, Some(AUTH_FAIL), None,
                                   FALSE, FALSE, None)
        /\ UNCHANGED sessions

\* ------------------------------------------------------- handle_htp_packet
\* sender_lookup that lets an address without a client through, as subject 0
sender_lookup_noCheck(src) ==
    IF IsSome(clients[src])
    THEN [clients |-> [clients EXCEPT ![src] =
                           Some([Get(@) EXCEPT !.last_seen = 0])],
          sender_id |-> Some(Get(clients[src]).user_id)]
    ELSE [clients |-> clients, sender_id |-> Some(0)]

\* the sender check: the client's last_seen refreshed and its user_id, or None
sender_lookup(src) ==
    IF IsSome(clients[src])
    THEN [clients |-> [clients EXCEPT ![src] =
                           Some([Get(@) EXCEPT !.last_seen = 0])],
          sender_id |-> Some(Get(clients[src]).user_id)]
    ELSE [clients |-> clients, sender_id |-> None]

\* route that forwards the packet of a third subject to side_a
route_thirdForwarded(session, sender_id, src) ==
    IF session.side_a[1] = sender_id
    THEN [session |-> [session EXCEPT !.side_a = <<sender_id, src>>],
          dest |-> IF IsSome(session.side_b)
                   THEN Some(Get(session.side_b)[2]) ELSE None,
          joined |-> FALSE]
    ELSE IF IsSome(session.side_b) /\ Get(session.side_b)[1] = sender_id
    THEN [session |-> [session EXCEPT !.side_b = Some(<<sender_id, src>>)],
          dest |-> Some(session.side_a[2]),
          joined |-> FALSE]
    ELSE IF ~IsSome(session.side_b)
    THEN [session |-> [session EXCEPT !.side_b = Some(<<sender_id, src>>)],
          dest |-> Some(session.side_a[2]),
          joined |-> TRUE]
    ELSE [session |-> session, dest |-> Some(session.side_a[2]), joined |-> FALSE]

\* route without the test that side_b is empty: whoever is not side_a takes side_b
route_thirdJoins(session, sender_id, src) ==
    IF session.side_a[1] = sender_id
    THEN [session |-> [session EXCEPT !.side_a = <<sender_id, src>>],
          dest |-> IF IsSome(session.side_b)
                   THEN Some(Get(session.side_b)[2]) ELSE None,
          joined |-> FALSE]
    ELSE [session |-> [session EXCEPT !.side_b = Some(<<sender_id, src>>)],
          dest |-> Some(session.side_a[2]),
          joined |-> ~IsSome(session.side_b)]

\* route that keeps the address side_b joined with
route_keepsJoinAddr(session, sender_id, src) ==
    IF session.side_a[1] = sender_id
    THEN [session |-> [session EXCEPT !.side_a = <<sender_id, src>>],
          dest |-> IF IsSome(session.side_b)
                   THEN Some(Get(session.side_b)[2]) ELSE None,
          joined |-> FALSE]
    ELSE IF IsSome(session.side_b) /\ Get(session.side_b)[1] = sender_id
    THEN [session |-> session,
          dest |-> Some(session.side_a[2]),
          joined |-> FALSE]
    ELSE IF ~IsSome(session.side_b)
    THEN [session |-> [session EXCEPT !.side_b = Some(<<sender_id, src>>)],
          dest |-> Some(session.side_a[2]),
          joined |-> TRUE]
    ELSE [session |-> session, dest |-> None, joined |-> FALSE]

\* the destination of a packet of sender_id from src on a session, and the
\* session after it
route(session, sender_id, src) ==
    IF session.side_a[1] = sender_id
    THEN [session |-> [session EXCEPT !.side_a = <<sender_id, src>>],
          dest |-> IF IsSome(session.side_b)
                   THEN Some(Get(session.side_b)[2]) ELSE None,
          joined |-> FALSE]
    ELSE IF IsSome(session.side_b) /\ Get(session.side_b)[1] = sender_id
    THEN [session |-> [session EXCEPT !.side_b = Some(<<sender_id, src>>)],
          dest |-> Some(session.side_a[2]),
          joined |-> FALSE]
    ELSE IF ~IsSome(session.side_b)
    THEN [session |-> [session EXCEPT !.side_b = Some(<<sender_id, src>>)],
          dest |-> Some(session.side_a[2]),
          joined |-> TRUE]
    ELSE [session |-> session, dest |-> None, joined |-> FALSE]

handle_htp_packet(src, session_id) ==
    LET who == sender_lookup(src)
    IN  /\ IF ~IsSome(who.sender_id)
           THEN /\ last' = Handled("htp", src, session_id, None, None, None,
                                   FALSE, FALSE, sessions[session_id])
                /\ UNCHANGED <<clients, sessions>>
           ELSE LET sender_id == Get(who.sender_id)
                    fresh == ~IsSome(sessions[session_id])
                    entry == IF fresh
                             THEN [side_a |-> <<sender_id, src>>, side_b |-> None,
                                   last_activity |-> 0]
                             ELSE Get(sessions[session_id])
                    r == route([entry EXCEPT !.last_activity = 0], sender_id, src)
                IN  /\ clients' = who.clients
                    /\ sessions' = [sessions EXCEPT ![session_id] = Some(r.session)]
                    /\ last' = Handled("htp", src, session_id, who.sender_id, None,
                                       r.dest, fresh, r.joined, sessions[session_id])
        /\ UNCHANGED handshaken

\* ----------------------------------------------------------- cleanup_stale
\* An Instant is kept as the seconds elapsed since it: Instant::now() is 0, and
\* now.duration_since(t) is t itself.
\* a session that is kept while its idle time does not exceed the timeout
session_alive_upTo(session) == session.last_activity <= SESSION_TIMEOUT_SECS

session_alive(session) == session.last_activity < SESSION_TIMEOUT_SECS

client_alive(client) == client.last_seen < SESSION_TIMEOUT_SECS * 2

\* Time is observed in steps of two cleanup intervals: the interval fires twice,
\* and what the second run of cleanup_stale leaves is what the two runs leave.
TICK_SECS == 2 * CLEANUP_INTERVAL_SECS

Later(stamped, field) ==
    IF IsSome(stamped) THEN Some([Get(stamped) EXCEPT ![field] = @ + TICK_SECS])
    ELSE None

\* TICK_SECS pass, and cleanup_stale runs
cleanup_stale ==
    /\ sessions' = [i \in SessionIds |->
                       LET session == Later(sessions[i], "last_activity")
                       IN  IF IsSome(session) /\ session_alive(Get(session))
                           THEN session ELSE None]
    /\ clients' = [a \in Addrs |->
                      LET client == Later(clients[a], "last_seen")
                      IN  IF IsSome(client) /\ client_alive(Get(client))
                          THEN client ELSE None]
    /\ handshaken' = { a \in handshaken :
                          IsSome(clients[a]) =>
                              client_alive(Get(Later(clients[a], "last_seen"))) }
    /\ last' = Handled("cleanup", 0, 0, None, None, None, FALSE, FALSE, None)
    /\ UNCHANGED <<handled, seenAddrs, seenUsers, seenSessions>>
    /\ UNCHANGED notRelay

\* Time at a finer grain: CLEANUP_INTERVAL_SECS pass with no packet and no run
\* of cleanup_stale; a stamp is followed up to MaxIdleSecs.
MaxIdleSecs == 150

RelayTimePasses ==
    /\ \E i \in SessionIds : IsSome(sessions[i])
    /\ \A i \in SessionIds :
          IsSome(sessions[i]) =>
              Get(sessions[i]).last_activity + CLEANUP_INTERVAL_SECS <= MaxIdleSecs
    /\ \A a \in Addrs :
          IsSome(clients[a]) =>
              Get(clients[a]).last_seen + CLEANUP_INTERVAL_SECS <= MaxIdleSecs
    /\ sessions' = [i \in SessionIds |->
                       IF IsSome(sessions[i])
                       THEN Some([Get(sessions[i]) EXCEPT
                                    !.last_activity = @ + CLEANUP_INTERVAL_SECS])
                       ELSE None]
    /\ clients' = [a \in Addrs |->
                      IF IsSome(clients[a])
                      THEN Some([Get(clients[a]) EXCEPT
                                    !.last_seen = @ + CLEANUP_INTERVAL_SECS])
                      ELSE None]
    /\ last' = Handled("time", 0, 0, None, None, None, FALSE, FALSE, None)
    /\ UNCHANGED <<handled, handshaken, seenAddrs, seenUsers, seenSessions>>
    /\ UNCHANGED notRelay

\* cleanup_stale runs at the present instant: a run of the interval task that
\* is not tied to the ticks of the model's clock
cleanup_stale_now ==
    /\ sessions' = [i \in SessionIds |->
                       IF IsSome(sessions[i]) /\ session_alive(Get(sessions[i]))
                       THEN sessions[i] ELSE None]
    /\ clients' = [a \in Addrs |->
                      IF IsSome(clients[a]) /\ client_alive(Get(clients[a]))
                      THEN clients[a] ELSE None]
    /\ handshaken' = { a \in handshaken :
                          IsSome(clients[a]) => client_alive(Get(clients[a])) }
    /\ last' = Handled("cleanup", 0, 0, None, None, None, FALSE, FALSE, None)
    /\ UNCHANGED <<handled, seenAddrs, seenUsers, seenSessions>>
    /\ UNCHANGED notRelay

\* ------------------------------------------------------------ relay actions
\* a handshake datagram (first byte AUTH_MARKER) arrives from src
HandleAuth ==
    /\ handled < MaxPackets
    /\ handled' = handled + 1
    /\ \E src \in NextAddrs, pkt \in AuthPackets :
           /\ handle_auth(src, pkt)
           /\ seenAddrs' = Max(seenAddrs, src)
           /\ seenUsers' = Max(seenUsers, pkt.sub)
    /\ UNCHANGED seenSessions
    /\ UNCHANGED notRelay

\* an HTP datagram (HTP_MAGIC, at least HTP_HEADER_SIZE bytes) arrives from src
HandleHtp ==
    /\ handled < MaxPackets
    /\ handled' = handled + 1
    /\ \E src \in NextAddrs, session_id \in NextSessionIds :
           /\ handle_htp_packet(src, session_id)
           /\ seenAddrs' = Max(seenAddrs, src)
           /\ seenSessions' = Max(seenSessions, session_id)
    /\ UNCHANGED seenUsers
    /\ UNCHANGED notRelay

\* any other datagram is logged and dropped
HandleUnknown ==
    /\ UNCHANGED relayVars
    /\ UNCHANGED notRelay

\* ===================================================== sender pipeline
\* run_sender of haven-fast-transfer: Reader -> Encryptor -> Blaster, with the
\* ACKs and NACKs the control channel feeds to the Blaster. A chunk travels
\* through the pipeline as its index.
\* ---------------------------------------------------------- sender bounds
MaxChunks == 3          \* largest chunk_count tried
SENDER_CACHE_SIZE == 2  \* protocol.rs SENDER_CACHE_SIZE, scaled from 8
PipeCap == 1            \* capacity of read_tx and enc_tx, scaled from 4
CtlCap == 1             \* control messages of a kind waiting for the Blaster
MaxAcks == 3            \* ACKs the control channel delivers
MaxNackFrames == 1      \* frames the NACKs served name

\* ------------------------------------------------------- sender constants
STATE_ENCRYPTING == 1
STATE_BLASTING == 2

Last(q) == q[Len(q)]

SenderIdle ==
    /\ s_state = STATE_IDLE
    /\ s_cancelled = 0
    /\ s_chunks_complete = 0
    /\ s_retransmits = 0
    /\ pcSMain = "start"
    /\ pcReader = "idle"
    /\ rd_idx = 0
    /\ read_ch = <<>>
    /\ pcEncryptor = "idle"
    /\ encHand = None
    /\ enc_ch = <<>>
    /\ pcBlaster = "idle"
    /\ cache = {}
    /\ cache_order = <<>>
    /\ acked = {}
    /\ ack_ch = <<>>
    /\ nack_ch = <<>>
    /\ blasted = {}

\* a file of 1 .. MaxChunks chunks, run_sender not called yet
InitSender ==
    /\ s_chunk_count \in 1 .. MaxChunks
    /\ SenderIdle

ReaderGone == pcReader \in {"ok", "err"}
EncryptorGone == pcEncryptor \in {"ok", "err"}
BlasterGone == pcBlaster \in {"ok", "err"}

\* the eviction loop without the test of acked: the oldest chunk goes
RECURSIVE Evict_noAckTest(_, _, _)
Evict_noAckTest(c, order, ack) ==
    IF Cardinality(c) > SENDER_CACHE_SIZE /\ order # <<>>
    THEN Evict_noAckTest(c \ {Head(order)}, Tail(order), ack)
    ELSE [cache |-> c, cache_order |-> order]

\* the eviction loop: while the cache is over SENDER_CACHE_SIZE, the oldest chunk
\* is removed if it has been ACKed; the loop breaks at the first that has not
RECURSIVE Evict(_, _, _)
Evict(c, order, ack) ==
    IF Cardinality(c) > SENDER_CACHE_SIZE /\ order # <<>> /\ Head(order) \in ack
    THEN Evict(c \ {Head(order)}, Tail(order), ack)
    ELSE [cache |-> c, cache_order |-> order]

\* frames named by the NACKs of q that are served from the cache c
RECURSIVE ServedFrames(_, _)
ServedFrames(q, c) ==
    IF q = <<>> THEN 0
    ELSE (IF Head(q).chunk_index \in c THEN Len(Head(q).missing_frames) ELSE 0)
             + ServedFrames(Tail(q), c)

\* while let Ok(ack) = ack_rx.try_recv(): acked.insert, chunks_complete.fetch_add(1)
RECURSIVE ProcessAcks(_, _, _)
ProcessAcks(q, ack, complete) ==
    IF q = <<>> THEN [acked |-> ack, chunks_complete |-> complete]
    ELSE ProcessAcks(Tail(q), ack \cup {Head(q)}, complete + 1)

\* ------------------------------------------------------ run_sender: main
\* run_sender up to the spawning of the three threads
SStart ==
    /\ pcSMain = "start"
    /\ s_state' = STATE_ENCRYPTING
    /\ pcReader' = "run"
    /\ pcEncryptor' = "run"
    /\ pcBlaster' = "loop"
    /\ pcSMain' = "joinRd"
    /\ UNCHANGED <<s_chunk_count, s_cancelled, s_chunks_complete, s_retransmits,
                   rd_idx, read_ch, encHand, enc_ch, cache, cache_order, acked,
                   ack_ch, nack_ch, blasted>>
    /\ UNCHANGED notSender

\* the host publishes the cancelled flag of the sender
SCancel ==
    /\ s_cancelled = 0
    /\ s_cancelled' = 1
    /\ UNCHANGED <<s_chunk_count, s_state, s_chunks_complete, s_retransmits,
                   pcSMain, pcReader, rd_idx, read_ch, pcEncryptor, encHand,
                   enc_ch, pcBlaster, cache, cache_order, acked, ack_ch, nack_ch,
                   blasted>>
    /\ UNCHANGED notSender

\* reader_handle.join()??
SMainJoinRd ==
    /\ pcSMain = "joinRd"
    /\ ReaderGone
    /\ pcSMain' = IF pcReader = "ok" THEN "joinEnc" ELSE "retErr"
    /\ UNCHANGED <<s_chunk_count, s_state, s_cancelled, s_chunks_complete,
                   s_retransmits, pcReader, rd_idx, read_ch, pcEncryptor, encHand,
                   enc_ch, pcBlaster, cache, cache_order, acked, ack_ch, nack_ch,
                   blasted>>
    /\ UNCHANGED notSender

\* encryptor_handle.join()??, then the store of the hashes in hashes_json
SMainJoinEnc ==
    /\ pcSMain = "joinEnc"
    /\ EncryptorGone
    /\ pcSMain' = IF pcEncryptor = "ok" THEN "joinBl" ELSE "retErr"
    /\ UNCHANGED <<s_chunk_count, s_state, s_cancelled, s_chunks_complete,
                   s_retransmits, pcReader, rd_idx, read_ch, pcEncryptor, encHand,
                   enc_ch, pcBlaster, cache, cache_order, acked, ack_ch, nack_ch,
                   blasted>>
    /\ s_hashes_json' = IF pcEncryptor = "ok" THEN Some(s_chunk_hashes)
                        ELSE s_hashes_json
    /\ UNCHANGED <<s_chunk_hashes, notSenderHash>>

\* blaster_handle.join()??, then the store of STATE_COMPLETE and Ok(SendResult)
SMainJoinBl ==
    /\ pcSMain = "joinBl"
    /\ BlasterGone
    /\ IF pcBlaster = "ok"
       THEN s_state' = STATE_COMPLETE /\ pcSMain' = "retOk"
       ELSE s_state' = s_state /\ pcSMain' = "retErr"
    /\ UNCHANGED <<s_chunk_count, s_cancelled, s_chunks_complete, s_retransmits,
                   pcReader, rd_idx, read_ch, pcEncryptor, encHand, enc_ch,
                   pcBlaster, cache, cache_order, acked, ack_ch, nack_ch, blasted>>
    /\ UNCHANGED notSender

\* --------------------------------------------------------- sender: Reader
\* one iteration of the Reader loop: the cancellation check, the read, then
\* read_tx.send, which returns at once when the channel has room, fails when the
\* Encryptor is gone, and otherwise leaves the Reader blocked with the chunk in hand
RdStep ==
    /\ pcReader = "run"
    /\ IF rd_idx >= s_chunk_count
       THEN pcReader' = "ok" /\ UNCHANGED <<rd_idx, read_ch>>
       ELSE IF s_cancelled # 0
       THEN pcReader' = "err" /\ UNCHANGED <<rd_idx, read_ch>>
       ELSE IF EncryptorGone
       THEN pcReader' = "err" /\ UNCHANGED <<rd_idx, read_ch>>
       ELSE IF Len(read_ch) < PipeCap
       THEN /\ read_ch' = Append(read_ch, rd_idx)
            /\ rd_idx' = rd_idx + 1
            /\ pcReader' = "run"
       ELSE pcReader' = "send" /\ UNCHANGED <<rd_idx, read_ch>>
    /\ UNCHANGED <<s_chunk_count, s_state, s_cancelled, s_chunks_complete,
                   s_retransmits, pcSMain, pcEncryptor, encHand, enc_ch, pcBlaster,
                   cache, cache_order, acked, ack_ch, nack_ch, blasted>>
    /\ UNCHANGED notSender

\* the blocked read_tx.send that returns only when the channel has room
RdSend_roomOnly ==
    /\ pcReader = "send"
    /\ ~EncryptorGone
    /\ Len(read_ch) < PipeCap
    /\ read_ch' = Append(read_ch, rd_idx)
    /\ rd_idx' = rd_idx + 1
    /\ pcReader' = "run"
    /\ UNCHANGED <<s_chunk_count, s_state, s_cancelled, s_chunks_complete,
                   s_retransmits, pcSMain, pcEncryptor, encHand, enc_ch, pcBlaster,
                   cache, cache_order, acked, ack_ch, nack_ch, blasted>>
    /\ UNCHANGED notSender

\* the blocked read_tx.send returns: room in the channel, or the Encryptor gone
RdSend ==
    /\ pcReader = "send"
    /\ IF EncryptorGone
       THEN pcReader' = "err" /\ UNCHANGED <<rd_idx, read_ch>>
       ELSE /\ Len(read_ch) < PipeCap
            /\ read_ch' = Append(read_ch, rd_idx)
            /\ rd_idx' = rd_idx + 1
            /\ pcReader' = "run"
    /\ UNCHANGED <<s_chunk_count, s_state, s_cancelled, s_chunks_complete,
                   s_retransmits, pcSMain, pcEncryptor, encHand, enc_ch, pcBlaster,
                   cache, cache_order, acked, ack_ch, nack_ch, blasted>>
    /\ UNCHANGED notSender

\* ------------------------------------------------------ sender: Encryptor
\* the hash of encrypted chunk idx of the file sent: the nonce and the plaintext
\* are both determined by the index
ChunkHash(idx) == Sha256Hex([nonce |-> idx, chunk |-> idx])

\* one iteration of the Encryptor loop over read_rx: the cancellation check, the
\* encryption and hashing of the chunk (chunk_hashes.push), then enc_tx.send;
\* when the thread returns, read_rx is dropped, and with it the chunks still queued
EncChunk ==
    /\ pcEncryptor = "run"
    /\ read_ch # <<>>
    /\ IF s_cancelled # 0 \/ BlasterGone
       THEN /\ pcEncryptor' = "err"
            /\ read_ch' = <<>>
            /\ UNCHANGED <<encHand, enc_ch>>
       ELSE /\ read_ch' = Tail(read_ch)
            /\ IF Len(enc_ch) < PipeCap
               THEN /\ enc_ch' = Append(enc_ch, Head(read_ch))
                    /\ UNCHANGED <<pcEncryptor, encHand>>
               ELSE /\ pcEncryptor' = "send"
                    /\ encHand' = Some(Head(read_ch))
                    /\ UNCHANGED enc_ch
    /\ UNCHANGED <<s_chunk_count, s_state, s_cancelled, s_chunks_complete,
                   s_retransmits, pcSMain, pcReader, rd_idx, pcBlaster, cache,
                   cache_order, acked, ack_ch, nack_ch, blasted>>
    /\ s_chunk_hashes' = IF s_cancelled # 0 THEN s_chunk_hashes
                         ELSE Append(s_chunk_hashes, ChunkHash(Head(read_ch)))
    /\ UNCHANGED <<s_hashes_json, notSenderHash>>

\* the loop over read_rx ends because the Reader has dropped read_tx
EncClosed ==
    /\ pcEncryptor = "run"
    /\ read_ch = <<>>
    /\ ReaderGone
    /\ pcEncryptor' = "ok"
    /\ UNCHANGED <<s_chunk_count, s_state, s_cancelled, s_chunks_complete,
                   s_retransmits, pcSMain, pcReader, rd_idx, read_ch, encHand,
                   enc_ch, pcBlaster, cache, cache_order, acked, ack_ch, nack_ch,
                   blasted>>
    /\ UNCHANGED notSender

\* the blocked enc_tx.send returns: room in the channel, or the Blaster gone
EncSend ==
    /\ pcEncryptor = "send"
    /\ IF BlasterGone
       THEN /\ pcEncryptor' = "err"
            /\ read_ch' = <<>>
            /\ UNCHANGED enc_ch
       ELSE /\ Len(enc_ch) < PipeCap
            /\ enc_ch' = Append(enc_ch, Get(encHand))
            /\ pcEncryptor' = "run"
            /\ UNCHANGED read_ch
    /\ encHand' = None
    /\ UNCHANGED <<s_chunk_count, s_state, s_cancelled, s_chunks_complete,
                   s_retransmits, pcSMain, pcReader, rd_idx, pcBlaster, cache,
                   cache_order, acked, ack_ch, nack_ch, blasted>>
    /\ UNCHANGED notSender

\* -------------------------------------------------------- sender: Blaster
\* one iteration of the Blaster loop over enc_rx: the cancellation check, the
\* state store on chunk 0, the cache insert and the eviction loop, blast_chunk,
\* then every pending NACK and every pending ACK; when the thread returns its
\* receivers are dropped, and with them what is still queued
BlChunk ==
    /\ pcBlaster = "loop"
    /\ enc_ch # <<>>
    /\ IF s_cancelled # 0
       THEN /\ pcBlaster' = "err"
            /\ enc_ch' = <<>>
            /\ ack_ch' = <<>>
            /\ nack_ch' = <<>>
            /\ UNCHANGED <<s_state, cache, cache_order, blasted, s_retransmits,
                           acked, s_chunks_complete>>
       ELSE LET chunk == Head(enc_ch)
                e == Evict(cache \cup {chunk}, Append(cache_order, chunk), acked)
                a == ProcessAcks(ack_ch, acked, s_chunks_complete)
            IN  /\ s_state' = IF s_state = STATE_ENCRYPTING /\ chunk = 0
                              THEN STATE_BLASTING ELSE s_state
                /\ cache' = e.cache
                /\ cache_order' = e.cache_order
                /\ blasted' = blasted \cup {chunk}
                /\ s_retransmits' = s_retransmits + ServedFrames(nack_ch, e.cache)
                /\ nack_ch' = <<>>
                /\ acked' = a.acked
                /\ s_chunks_complete' = a.chunks_complete
                /\ ack_ch' = <<>>
                /\ enc_ch' = Tail(enc_ch)
                /\ UNCHANGED pcBlaster
    /\ UNCHANGED <<s_chunk_count, s_cancelled, pcSMain, pcReader, rd_idx, read_ch,
                   pcEncryptor, encHand>>
    /\ UNCHANGED notSender

\* the loop over enc_rx ends because the Encryptor has dropped enc_tx
BlClosed ==
    /\ pcBlaster = "loop"
    /\ enc_ch = <<>>
    /\ EncryptorGone
    /\ pcBlaster' = "drain"
    /\ UNCHANGED <<s_chunk_count, s_state, s_cancelled, s_chunks_complete,
                   s_retransmits, pcSMain, pcReader, rd_idx, read_ch, pcEncryptor,
                   encHand, enc_ch, cache, cache_order, acked, ack_ch, nack_ch,
                   blasted>>
    /\ UNCHANGED notSender

\* chunk_count of the drain loop taken as the number of chunks in cache_order
DrainCount_len == Len(cache_order)

\* chunk_count of the drain loop: cache_order.last() + 1
DrainCount == IF cache_order = <<>> THEN 0 ELSE Last(cache_order) + 1

\* one iteration of the drain loop: the loop condition on acked, the cancellation
\* check, one NACK if recv_timeout returns one, then every pending ACK
BlDrain ==
    /\ pcBlaster = "drain"
    /\ IF Cardinality(acked) >= DrainCount
       THEN /\ pcBlaster' = "ok"
            /\ ack_ch' = <<>>
            /\ nack_ch' = <<>>
            /\ UNCHANGED <<s_retransmits, acked, s_chunks_complete>>
       ELSE IF s_cancelled # 0
       THEN /\ pcBlaster' = "err"
            /\ ack_ch' = <<>>
            /\ nack_ch' = <<>>
            /\ UNCHANGED <<s_retransmits, acked, s_chunks_complete>>
       ELSE LET a == ProcessAcks(ack_ch, acked, s_chunks_complete)
            IN  /\ s_retransmits' = s_retransmits
                        + (IF nack_ch = <<>> THEN 0
                           ELSE ServedFrames(<<Head(nack_ch)>>, cache))
                /\ nack_ch' = IF nack_ch = <<>> THEN <<>> ELSE Tail(nack_ch)
                /\ acked' = a.acked
                /\ s_chunks_complete' = a.chunks_complete
                /\ ack_ch' = <<>>
                /\ UNCHANGED pcBlaster
    /\ UNCHANGED <<s_chunk_count, s_state, s_cancelled, pcSMain, pcReader, rd_idx,
                   read_ch, pcEncryptor, encHand, enc_ch, cache, cache_order,
                   blasted>>
    /\ UNCHANGED notSender

\* the drain loop ends because its deadline has passed
BlDeadline ==
    /\ pcBlaster = "drain"
    /\ pcBlaster' = "ok"
    /\ ack_ch' = <<>>
    /\ nack_ch' = <<>>
    /\ UNCHANGED <<s_chunk_count, s_state, s_cancelled, s_chunks_complete,
                   s_retransmits, pcSMain, pcReader, rd_idx, read_ch, pcEncryptor,
                   encHand, enc_ch, cache, cache_order, acked, blasted>>
    /\ UNCHANGED notSender

\* ------------------------------------------------- sender: control channel
\* the control channel delivers the ACK of a chunk that has been blasted; an ACK
\* may come again, and ACKs come in any order
CtlAck ==
    /\ ~BlasterGone
    /\ Len(ack_ch) < CtlCap
    /\ s_chunks_complete + Len(ack_ch) < MaxAcks
    /\ \E c \in blasted : ack_ch' = Append(ack_ch, c)
    /\ UNCHANGED <<s_chunk_count, s_state, s_cancelled, s_chunks_complete,
                   s_retransmits, pcSMain, pcReader, rd_idx, read_ch, pcEncryptor,
                   encHand, enc_ch, pcBlaster, cache, cache_order, acked, nack_ch,
                   blasted>>
    /\ UNCHANGED notSender

\* the control channel delivers a NACK that names one frame of a blasted chunk
CtlNack ==
    /\ ~BlasterGone
    /\ Len(nack_ch) < CtlCap
    /\ s_retransmits + Len(nack_ch) < MaxNackFrames
    /\ \E c \in blasted :
           nack_ch' = Append(nack_ch, [chunk_index |-> c, missing_frames |-> <<0>>])
    /\ UNCHANGED <<s_chunk_count, s_state, s_cancelled, s_chunks_complete,
                   s_retransmits, pcSMain, pcReader, rd_idx, read_ch, pcEncryptor,
                   encHand, enc_ch, pcBlaster, cache, cache_order, acked, ack_ch,
                   blasted>>
    /\ UNCHANGED notSender

\* ------------------------------------------- delay-based congestion control
\* Rates are bytes per second. current_rate is an f64: it is kept here in steps
\* of 1/FP byte per second, and a result that falls between two steps is rounded
\* down. Times are in ticks of the clock; an RTT is a number of RTT units of
\* which MICROS_PER_SEC make one second.
FP == 4
MICROS_PER_SEC == 16
MaxRate == 6
MaxMinRate == 2
MaxRtt == 9
MaxSamples == 2
MaxTime == 2
MaxBytesAcked == 1
\* CongestionConfig: gain 0.5, rtt_smoothing 0.125; alpha, min_rtt_window and
\* update_interval in the units of the model
GAIN_NUM == 1
GAIN_DEN == 2
SMOOTH_NUM == 1
SMOOTH_DEN == 8
ALPHA == 2
MIN_RTT_WINDOW == 1
UPDATE_INTERVAL == 1

\* the configurations: any initial_rate, and min_rate <= max_rate
Configs ==
    { c \in [initial_rate : 0 .. MaxRate + 1, min_rate : 1 .. MaxMinRate,
             max_rate : 1 .. MaxRate] : c.min_rate <= c.max_rate }

RttSamples == { 1, MaxRtt }

\* CongestionController::new at time now
CongestionController_new(config, now) ==
    [config |-> config,
     current_rate |-> config.initial_rate * FP,
     smoothed_rtt |-> None,
     min_rtt |-> None,
     rtt_history |-> <<>>,
     last_update |-> now,
     bytes_acked |-> 0]

\* `current_rate as u64`: the integral part, 0 for a negative rate
AsU64(fp) == IF fp < 0 THEN 0 ELSE fp \div FP

\* CongestionController::rate
rate(c) == AsU64(c.current_rate)

\* the samples left after the ones older than window_start are popped in front
RECURSIVE Prune(_, _)
Prune(h, window_start) ==
    IF h # <<>> /\ Head(h).time < window_start THEN Prune(Tail(h), window_start)
    ELSE h

RECURSIVE MinRtt(_)
MinRtt(h) ==
    IF h = <<>> THEN None
    ELSE LET m == MinRtt(Tail(h))
         IN  IF IsSome(m) /\ Get(m) < Head(h).rtt THEN m ELSE Some(Head(h).rtt)

\* CongestionController::on_rtt_sample at time now
on_rtt_sample(c, rtt, now) ==
    LET smoothed == IF ~IsSome(c.smoothed_rtt) THEN rtt
                    ELSE ((SMOOTH_DEN - SMOOTH_NUM) * Get(c.smoothed_rtt)
                          + SMOOTH_NUM * rtt) \div SMOOTH_DEN
        h == Prune(Append(c.rtt_history, [rtt |-> rtt, time |-> now]),
                   now - MIN_RTT_WINDOW)
    IN  [c EXCEPT !.smoothed_rtt = Some(smoothed),
                  !.rtt_history = h,
                  !.min_rtt = MinRtt(h)]

\* CongestionController::on_ack
on_ack(c, bytes) == [c EXCEPT !.bytes_acked = @ + bytes]

\* CongestionController::queuing_delay: smoothed_rtt - min_rtt, saturating
queuing_delay(c) ==
    IF IsSome(c.smoothed_rtt) /\ IsSome(c.min_rtt)
    THEN Some(Max(Get(c.smoothed_rtt) - Get(c.min_rtt), 0))
    ELSE None

clamp(x, lo, hi) == IF x < lo THEN lo ELSE IF x > hi THEN hi ELSE x

\* update_rate that applies the formula at every call, without the test of
\* update_interval
update_rate_everyCall(c, now) ==
    LET c1 == [c EXCEPT !.last_update = now]
        qd == queuing_delay(c)
    IN  IF ~IsSome(qd) THEN [cc |-> c1, ret |-> rate(c1)]
        ELSE LET delta == (GAIN_NUM * (ALPHA * FP * MICROS_PER_SEC
                                       - c.current_rate * Get(qd)))
                          \div (GAIN_DEN * MICROS_PER_SEC)
                 c2 == [c1 EXCEPT !.current_rate =
                           clamp(c.current_rate + delta, c.config.min_rate * FP,
                                 c.config.max_rate * FP)]
             IN  [cc |-> c2, ret |-> rate(c2)]

\* CongestionController::update_rate at time now: the controller after the call
\* and the value returned
update_rate(c, now) ==
    IF now - c.last_update < UPDATE_INTERVAL THEN [cc |-> c, ret |-> rate(c)]
    ELSE LET c1 == [c EXCEPT !.last_update = now]
             qd == queuing_delay(c)
         IN  IF ~IsSome(qd) THEN [cc |-> c1, ret |-> rate(c1)]
             ELSE LET delta == (GAIN_NUM * (ALPHA * FP * MICROS_PER_SEC
                                            - c.current_rate * Get(qd)))
                               \div (GAIN_DEN * MICROS_PER_SEC)
                      c2 == [c1 EXCEPT !.current_rate =
                                clamp(c.current_rate + delta, c.config.min_rate * FP,
                                      c.config.max_rate * FP)]
                  IN  [cc |-> c2, ret |-> rate(c2)]

\* the clock advances
CcTick ==
    /\ cc_now < MaxTime
    /\ cc_now' = cc_now + 1
    /\ UNCHANGED <<cc, cc_ret>>
    /\ UNCHANGED notCc

CcRttSample ==
    /\ Len(cc.rtt_history) < MaxSamples
    /\ \E rtt \in RttSamples : cc' = on_rtt_sample(cc, rtt, cc_now)
    /\ UNCHANGED <<cc_now, cc_ret>>
    /\ UNCHANGED notCc

CcAck ==
    /\ cc.bytes_acked < MaxBytesAcked
    /\ cc' = on_ack(cc, 1)
    /\ UNCHANGED <<cc_now, cc_ret>>
    /\ UNCHANGED notCc

CcUpdateRate ==
    /\ cc' = update_rate(cc, cc_now).cc
    /\ cc_ret' = Some(update_rate(cc, cc_now).ret)
    /\ UNCHANGED cc_now
    /\ UNCHANGED notCc

\* ------------------------------------------------------------ HTP transfer
\* One transfer: run_sender reads the input file packet by packet, encrypts each
\* packet under the session key and sends it; run_receiver decrypts and writes
\* at the packet's offset, and reports missing sequences, which come back to the
\* sender as Nack commands.
MAX_PLAINTEXT_PER_PACKET == 2
MaxHtpFile == 2 * MAX_PLAINTEXT_PER_PACKET
HtpCmdCap == 2
MaxHtpNacks == 2
SCAN_AHEAD == 1
MAX_NACK_SIZE == 2
HTP_SESSION == 1

\* the input file: n bytes, none of them the zero of a preallocated file
InputFile(n) == [i \in 1 .. n |-> ((i - 1) % 3) + 1]

total_chunks(fsize) ==
    (fsize + MAX_PLAINTEXT_PER_PACKET - 1) \div MAX_PLAINTEXT_PER_PACKET

\* TransferCrypto::build_iv: session id and sequence, big-endian, side by side
build_iv(session_id, sequence) == <<session_id, sequence>>

\* TransferCrypto::encrypt: IV, then the AEAD ciphertext and tag of plaintext
\* under the session key, the IV as nonce and (session id, sequence) as AAD
encrypt(session_id, sequence, plaintext) ==
    [iv |-> build_iv(session_id, sequence),
     sealed |-> [key |-> "session", nonce |-> build_iv(session_id, sequence),
                 aad |-> <<session_id, sequence>>, msg |-> plaintext]]

\* decrypt without the comparison of the IV and without the verification of the
\* tag: whatever the ciphertext gives under the key stream is returned
decrypt_unverified(session_id, sequence, encrypted) ==
    Some(encrypted.sealed.msg)

\* TransferCrypto::decrypt: Some(plaintext), or None on IvMismatch or AuthFailed
decrypt(session_id, sequence, encrypted) ==
    IF encrypted.iv # build_iv(session_id, sequence) THEN None
    ELSE IF \/ encrypted.sealed.key # "session"
            \/ encrypted.sealed.nonce # encrypted.iv
            \/ encrypted.sealed.aad # <<session_id, sequence>>
         THEN None
         ELSE Some(encrypted.sealed.msg)

\* size of the packet at sequence seq of a file of fsize bytes
htp_chunk_size(fsize, seq) ==
    Min(Max(fsize - seq * MAX_PLAINTEXT_PER_PACKET, 0), MAX_PLAINTEXT_PER_PACKET)

\* file.seek(offset); file.read_exact(chunk_size bytes)
ReadAt(f, offset, n) == [i \in 1 .. n |-> f[offset + i]]

\* the datagram run_sender builds for sequence seq: header and encrypted payload
HtpPacket(fsize, seq, flags) ==
    [session_id |-> HTP_SESSION, sequence |-> seq, flags |-> flags,
     encrypted_payload |->
        encrypt(HTP_SESSION, seq,
                ReadAt(InputFile(fsize), seq * MAX_PLAINTEXT_PER_PACKET,
                       htp_chunk_size(fsize, seq)))]

\* flags of a packet of phase 1
HtpFlags(fsize, seq, is_retransmit) ==
    (IF is_retransmit THEN {"RETRANSMIT"} ELSE {})
    \cup (IF seq = 0 THEN {"START"} ELSE {})
    \cup (IF seq = total_chunks(fsize) - 1 THEN {"END"} ELSE {})

HtpCommand(kind, seqs, seq) == [kind |-> kind, seqs |-> seqs, seq |-> seq]

\* DrainCommands with the sequences of a Nack command not kept
RECURSIVE DrainCommands_dropsNack(_, _)
DrainCommands_dropsNack(q, pending) ==
    IF q = <<>> THEN [pending |-> pending, cancel |-> FALSE]
    ELSE IF Head(q).kind = "Cancel" THEN [pending |-> pending, cancel |-> TRUE]
    ELSE DrainCommands_dropsNack(Tail(q), pending)

\* the sequences of the Nack commands of q that run_sender reads: those in
\* front of the first Cancel
RECURSIVE NackedIn(_)
NackedIn(q) ==
    IF q = <<>> \/ Head(q).kind = "Cancel" THEN {}
    ELSE (IF Head(q).kind = "Nack" THEN Head(q).seqs ELSE {})
         \cup NackedIn(Tail(q))

\* pending_nacks after the commands of q; cancel if a Cancel command is among
\* them (the commands behind it are not read)
RECURSIVE DrainCommands(_, _)
DrainCommands(q, pending) ==
    IF q = <<>> THEN [pending |-> pending, cancel |-> FALSE]
    ELSE IF Head(q).kind = "Cancel" THEN [pending |-> pending, cancel |-> TRUE]
    ELSE DrainCommands(Tail(q), IF Head(q).kind = "Nack"
                                THEN pending \cup Head(q).seqs ELSE pending)

\* the nonces of the encrypt calls for the sequences of set S, recorded
NoteNonces(S) ==
    /\ h_nonces' = h_nonces \cup { build_iv(HTP_SESSION, q) : q \in S }
    /\ h_nonce_reuse' = h_nonce_reuse
          + Cardinality({ q \in S : build_iv(HTP_SESSION, q) \in h_nonces })

InitHtpParties ==
    /\ hs = [pc |-> IF total_chunks(h_file_size) = 0 THEN "drain" ELSE "phase1",
             cancelled |-> FALSE, sequence |-> 0, pending_nacks |-> {},
             bytes_sent |-> 0, retransmit_count |-> 0,
             \* history: sequences read in a Nack command and not sent again
             \* as a retransmission since
             owed |-> {}]
    /\ hr = [pc |-> "loop", cancelled |-> FALSE, received |-> {},
             file |-> [i \in 1 .. h_file_size |-> 0], bytes_written |-> 0,
             total_bytes |-> None, nacks |-> 0, acked |-> FALSE, rejects |-> 0]
    /\ h_net = {}
    /\ h_cmd = <<>>
    /\ h_nonces = {}
    /\ h_nonce_reuse = 0

\* run_sender, one iteration of phase 1
HsPhase1 ==
    /\ hs.pc = "phase1"
    /\ LET total == total_chunks(h_file_size)
           d == DrainCommands(h_cmd, hs.pending_nacks)
       IN  IF hs.cancelled
           THEN /\ hs' = [hs EXCEPT !.pc = "err"]
                /\ UNCHANGED <<h_net, h_cmd, h_nonces, h_nonce_reuse>>
           ELSE IF d.cancel
           THEN /\ hs' = [hs EXCEPT !.pc = "err", !.cancelled = TRUE,
                                    !.pending_nacks = d.pending,
                                    !.owed = @ \cup NackedIn(h_cmd)]
                /\ h_cmd' = <<>>
                /\ UNCHANGED <<h_net, h_nonces, h_nonce_reuse>>
           ELSE \E pick \in IF d.pending = {} THEN {None}
                             ELSE { Some(q) : q \in d.pending } :
                  LET is_retransmit == IsSome(pick)
                      seq == IF is_retransmit THEN Get(pick) ELSE hs.sequence
                      pending == IF is_retransmit THEN d.pending \ {seq}
                                 ELSE d.pending
                      chunk_size == htp_chunk_size(h_file_size, seq)
                      sequence == IF is_retransmit THEN hs.sequence
                                  ELSE hs.sequence + 1
                  IN  /\ h_cmd' = <<>>
                      /\ IF chunk_size = 0
                         THEN /\ hs' = [hs EXCEPT
                                    !.pending_nacks = pending,
                                    !.sequence = sequence,
                                    !.owed = @ \cup NackedIn(h_cmd),
                                    !.pc = IF sequence < total THEN "phase1"
                                           ELSE "drain"]
                              /\ UNCHANGED <<h_net, h_nonces, h_nonce_reuse>>
                         ELSE /\ NoteNonces({seq})
                              /\ h_net' = h_net \cup
                                    {HtpPacket(h_file_size, seq,
                                        HtpFlags(h_file_size, seq, is_retransmit))}
                              /\ hs' = [hs EXCEPT
                                    !.pending_nacks = pending,
                                    !.sequence = sequence,
                                    !.bytes_sent = @ + chunk_size,
                                    !.retransmit_count =
                                        IF is_retransmit THEN @ + 1 ELSE @,
                                    !.owed = (@ \cup NackedIn(h_cmd)) \
                                        (IF is_retransmit THEN {seq} ELSE {}),
                                    !.pc = IF sequence < total THEN "phase1"
                                           ELSE "drain"]
    /\ UNCHANGED <<h_file_size, hr>>
    /\ UNCHANGED notHtp

\* run_sender, one iteration of phase 2 that takes a command or times out
HsDrain ==
    /\ hs.pc = "drain"
    /\ LET total == total_chunks(h_file_size)
       IN  IF hs.cancelled
           THEN /\ hs' = [hs EXCEPT !.pc = "err"]
                /\ UNCHANGED <<h_net, h_cmd, h_nonces, h_nonce_reuse>>
           ELSE IF h_cmd = <<>>
           THEN /\ hs' = [hs EXCEPT !.pc = IF hs.pending_nacks = {} THEN "ok"
                                           ELSE "drain"]
                /\ UNCHANGED <<h_net, h_cmd, h_nonces, h_nonce_reuse>>
           ELSE LET cmd == Head(h_cmd)
                    again == { q \in cmd.seqs :
                                 q < total /\ htp_chunk_size(h_file_size, q) > 0 }
                IN  /\ h_cmd' = Tail(h_cmd)
                    /\ IF cmd.kind = "Nack"
                       THEN /\ NoteNonces(again)
                            /\ h_net' = h_net \cup
                                  { HtpPacket(h_file_size, q, {"RETRANSMIT"}) :
                                      q \in again }
                            /\ hs' = [hs EXCEPT
                                  !.retransmit_count = @ + Cardinality(again),
                                  !.owed = (@ \cup cmd.seqs) \ again]
                       ELSE /\ hs' = [hs EXCEPT !.pc =
                                  IF cmd.kind = "Cancel" THEN "err"
                                  ELSE IF cmd.kind = "AckUpTo" /\ cmd.seq >= total
                                  THEN "ok" ELSE "drain"]
                            /\ UNCHANGED <<h_net, h_nonces, h_nonce_reuse>>
    /\ UNCHANGED <<h_file_size, hr>>
    /\ UNCHANGED notHtp

\* run_sender, phase 2: the drain deadline has passed
HsDeadline ==
    /\ hs.pc = "drain"
    /\ hs' = [hs EXCEPT !.pc = "ok"]
    /\ UNCHANGED <<h_file_size, hr, h_net, h_cmd, h_nonces, h_nonce_reuse>>
    /\ UNCHANGED notHtp

\* offset in the output file of the plaintext of sequence seq
write_offset_byLength(seq, plaintext) == seq * Len(plaintext)

write_offset(seq, plaintext) == seq * MAX_PLAINTEXT_PER_PACKET

\* file.seek(offset); file.write_all(data): the file grown if it has to be
HtpWriteAt(f, offset, data) ==
    [i \in 1 .. Max(Len(f), offset + Len(data)) |->
        IF i > offset /\ i <= offset + Len(data) THEN data[i - offset]
        ELSE IF i <= Len(f) THEN f[i] ELSE 0]

\* run_receiver: the head of a loop iteration finds the flag set, or every
\* sequence received
HrHead ==
    /\ hr.pc = "loop"
    /\ hr.cancelled \/ Cardinality(hr.received) >= total_chunks(h_file_size)
    /\ hr' = IF hr.cancelled THEN [hr EXCEPT !.pc = "err"]
             ELSE [hr EXCEPT !.pc = "ok", !.total_bytes = Some(h_file_size)]
    /\ UNCHANGED <<h_file_size, hs, h_net, h_cmd, h_nonces, h_nonce_reuse>>
    /\ UNCHANGED notHtp

\* run_receiver: what the receipt of datagram p does to the receiver; rejects
\* counts the "Decrypt failed" warnings logged
hr_recv(p) ==
    LET seq == p.sequence
        plaintext == decrypt(HTP_SESSION, seq, p.encrypted_payload)
    IN  IF \/ p.session_id # HTP_SESSION
           \/ seq \in hr.received
        THEN hr
        ELSE IF ~IsSome(plaintext)
        THEN [hr EXCEPT !.rejects = @ + 1]
        ELSE [hr EXCEPT
                !.file = HtpWriteAt(@, write_offset(seq, Get(plaintext)),
                                    Get(plaintext)),
                !.bytes_written = @ + Len(Get(plaintext)),
                !.received = @ \cup {seq}]

\* run_receiver: a loop iteration that receives datagram p, which the network
\* may deliver again later
HrRecv ==
    /\ hr.pc = "loop"
    /\ ~hr.cancelled
    /\ Cardinality(hr.received) < total_chunks(h_file_size)
    /\ \E p \in h_net :
         /\ h_net' \in {h_net, h_net \ {p}}
         /\ hr' = hr_recv(p)
    /\ UNCHANGED <<h_file_size, hs, h_cmd, h_nonces, h_nonce_reuse>>
    /\ UNCHANGED notHtp

\* Datagrams that carry the session id and a sequence of the file and were not
\* built by the sender for that sequence: a payload whose ciphertext was
\* altered (no key seals it), the payload of another sequence under this
\* header, and the latter with its IV rewritten to match the header.
MaxRejects == 2
GARBAGE == 9

ForgedPackets(fsize) ==
    LET seqs == 0 .. total_chunks(fsize) - 1
        hdr(seq, payload) ==
            [session_id |-> HTP_SESSION, sequence |-> seq, flags |-> {},
             encrypted_payload |-> payload]
    IN  { hdr(q, [iv |-> build_iv(HTP_SESSION, q),
                  sealed |-> [key |-> "none", nonce |-> build_iv(HTP_SESSION, q),
                              aad |-> <<HTP_SESSION, q>>,
                              msg |-> [i \in 1 .. htp_chunk_size(fsize, q)
                                          |-> GARBAGE]]]) : q \in seqs }
        \cup { hdr(x[1], HtpPacket(fsize, x[2], {}).encrypted_payload) :
                 x \in { y \in seqs \X seqs : y[1] # y[2] } }
        \cup { hdr(x[1], [HtpPacket(fsize, x[2], {}).encrypted_payload
                             EXCEPT !.iv = build_iv(HTP_SESSION, x[1])]) :
                 x \in { y \in seqs \X seqs : y[1] # y[2] } }

\* run_receiver: a loop iteration that receives a datagram somebody on the
\* path has altered or made up
HrRecvForged ==
    /\ hr.pc = "loop"
    /\ ~hr.cancelled
    /\ Cardinality(hr.received) < total_chunks(h_file_size)
    /\ hr.rejects < MaxRejects
    /\ \E p \in ForgedPackets(h_file_size) : hr' = hr_recv(p)
    /\ UNCHANGED <<h_file_size, hs, h_net, h_cmd, h_nonces, h_nonce_reuse>>
    /\ UNCHANGED notHtp

\* the sequences a periodic NACK names
HtpMissing(received, total) ==
    LET max_received == IF received = {} THEN 0
                        ELSE CHOOSE m \in received : \A q \in received : q <= m
        scan_end == Min(max_received + SCAN_AHEAD, total)
        all == { q \in 0 .. scan_end - 1 : q \notin received }
    IN  { q \in all : Cardinality({ x \in all : x < q }) < MAX_NACK_SIZE }

\* run_receiver: NACK_INTERVAL has passed at the end of an iteration; the Nack
\* event is passed on to the sender's command channel, or lost on the way
HrNack ==
    /\ hr.pc = "loop"
    /\ ~hr.cancelled
    /\ Cardinality(hr.received) < total_chunks(h_file_size)
    /\ hr.nacks < MaxHtpNacks
    /\ LET missing == HtpMissing(hr.received, total_chunks(h_file_size))
       IN  /\ missing # {}
           /\ hr' = [hr EXCEPT !.nacks = @ + 1]
           /\ \/ /\ Len(h_cmd) < HtpCmdCap
                 /\ h_cmd' = Append(h_cmd, HtpCommand("Nack", missing, 0))
              \/ UNCHANGED h_cmd
    /\ UNCHANGED <<h_file_size, hs, h_net, h_nonces, h_nonce_reuse>>
    /\ UNCHANGED notHtp

\* the Done event of the receiver reaches the sender as AckUpTo
HostAck ==
    /\ hr.pc = "ok"
    /\ ~hr.acked
    /\ Len(h_cmd) < HtpCmdCap
    /\ hr' = [hr EXCEPT !.acked = TRUE]
    /\ h_cmd' = Append(h_cmd, HtpCommand("AckUpTo", {},
                                         total_chunks(Get(hr.total_bytes))))
    /\ UNCHANGED <<h_file_size, hs, h_net, h_nonces, h_nonce_reuse>>
    /\ UNCHANGED notHtp

\* htp_cancel on the sending side, on the receiving side
HtpCancel ==
    /\ \/ /\ hs.pc \in {"phase1", "drain"}
          /\ ~hs.cancelled
          /\ Len(h_cmd) < HtpCmdCap
          /\ hs' = [hs EXCEPT !.cancelled = TRUE]
          /\ h_cmd' = Append(h_cmd, HtpCommand("Cancel", {}, 0))
          /\ UNCHANGED hr
       \/ /\ hr.pc = "loop"
          /\ ~hr.cancelled
          /\ hr' = [hr EXCEPT !.cancelled = TRUE]
          /\ UNCHANGED <<hs, h_cmd>>
    /\ UNCHANGED <<h_file_size, h_net, h_nonces, h_nonce_reuse>>
    /\ UNCHANGED notHtp

\* the network loses a datagram
HtpLose ==
    /\ \E p \in h_net : h_net' = h_net \ {p}
    /\ UNCHANGED <<h_file_size, hs, hr, h_cmd, h_nonces, h_nonce_reuse>>
    /\ UNCHANGED notHtp

\* ------------------------------------------------- file server: upload_chunk
MaxUpFile == 3        \* largest file_size of the transfer created
UpChunkSize == 2      \* chunk_size of the transfer, scaled from 4 MB
MaxPuts == 4          \* upload_chunk requests made
PutSlots == 2         \* upload_chunk handlers running at the same time

UploadUsers == {"owner", "other"}    \* claims.sub of the request

\* StatusCode values returned by the handler
OK == 200
BAD_REQUEST == 400
FORBIDDEN == 403
NOT_FOUND == 404
CONFLICT == 409
INTERNAL_SERVER_ERROR == 500

\* create_transfer: expected_chunks, and the byte_offset / byte_length of the
\* chunks rows (the last chunk may be smaller)
expected_chunks(fsize) ==
    IF fsize = 0 THEN 1 ELSE (fsize + UpChunkSize - 1) \div UpChunkSize

byte_offset(i) == i * UpChunkSize

byte_length(fsize, i) ==
    IF i = expected_chunks(fsize) - 1 THEN fsize - byte_offset(i) ELSE UpChunkSize

\* create_transfer: the transfers row (status 'uploading' by default), one chunks
\* row per hash with received = 0, and the file pre-allocated at file_size
create_transfer(fsize) ==
    [exists |-> TRUE, uploader_id |-> "owner", file_size |-> fsize,
     chunk_count |-> expected_chunks(fsize), status |-> "uploading",
     bytes_received |-> 0, received |-> {},
     file |-> Some([k \in 1 .. fsize |-> 0])]

\* request bodies: len bytes of value v
UpBody(len, v) == [k \in 1 .. len |-> v]
UpBodies == {UpBody(len, v) : len \in 1 .. UpChunkSize, v \in {1, 2}}

PutIdle == [pc |-> "idle", sub |-> "owner", chunk_index |-> 0, body |-> <<>>,
            current_status |-> "", already_received |-> FALSE, ret |-> 0]

\* the JOIN query and the checks that follow it: 404 without the rows, 403 for
\* another user, 409 unless the status is 'uploading', 200 if already received,
\* 400 on a body of the wrong length; otherwise the handler goes on to write
upload_chunk_checks(t, sub, chunk_index, body) ==
    IF ~t.exists \/ chunk_index \notin 0 .. (t.chunk_count - 1) THEN NOT_FOUND
    ELSE IF t.uploader_id # sub THEN FORBIDDEN
    ELSE IF t.status # "uploading" THEN CONFLICT
    ELSE IF chunk_index \in t.received THEN OK
    ELSE IF Len(body) # byte_length(t.file_size, chunk_index) THEN BAD_REQUEST
    ELSE 0

UpBegin(p, sub, chunk_index, body) ==
    /\ puts[p].pc \in {"idle", "done"}
    /\ nputs < MaxPuts
    /\ nputs' = nputs + 1
    /\ LET found == fsrv.exists /\ chunk_index \in 0 .. (fsrv.chunk_count - 1)
           r == upload_chunk_checks(fsrv, sub, chunk_index, body)
       IN puts' = [puts EXCEPT ![p] =
                     [pc |-> IF r = 0 THEN "write" ELSE "done",
                      sub |-> sub, chunk_index |-> chunk_index, body |-> body,
                      current_status |-> IF found THEN fsrv.status ELSE "",
                      already_received |-> found /\ chunk_index \in fsrv.received,
                      ret |-> r]]
    /\ UNCHANGED <<fsrv, notFsrv>>

\* open, seek to byte_offset and write_all: 500 if the file is gone
UpWrite(p) ==
    /\ puts[p].pc = "write"
    /\ IF IsSome(fsrv.file)
       THEN LET off == byte_offset(puts[p].chunk_index)
                b == puts[p].body
            IN /\ fsrv' = [fsrv EXCEPT !.file =
                             Some([k \in 1 .. Len(Get(fsrv.file)) |->
                                     IF k > off /\ k <= off + Len(b)
                                     THEN b[k - off] ELSE Get(fsrv.file)[k]])]
               /\ puts' = [puts EXCEPT ![p].pc = "mark"]
       ELSE /\ puts' = [puts EXCEPT ![p].pc = "done",
                                    ![p].ret = INTERNAL_SERVER_ERROR]
            /\ UNCHANGED fsrv
    /\ UNCHANGED <<nputs, notFsrv>>

\* UPDATE chunks SET received = 1; if no chunk of the transfer is unreceived,
\* UPDATE transfers SET status = 'complete', bytes_received = file_size
UpMark(p) ==
    /\ puts[p].pc = "mark"
    /\ LET rec == IF fsrv.exists THEN fsrv.received \cup {puts[p].chunk_index}
                  ELSE fsrv.received
           unreceived == fsrv.chunk_count - Cardinality(rec)
       IN fsrv' = IF fsrv.exists /\ unreceived = 0
                  THEN [fsrv EXCEPT !.received = rec, !.status = "complete",
                                    !.bytes_received = fsrv.file_size]
                  ELSE [fsrv EXCEPT !.received = rec]
    /\ puts' = [puts EXCEPT ![p].pc = "done", ![p].ret = OK]
    /\ UNCHANGED <<nputs, notFsrv>>

\* cleanup_expired on a transfer past expires_at: the file is deleted and the
\* status set to 'expired'
cleanup_expired ==
    /\ fsrv.exists
    /\ fsrv.status # "expired"
    /\ fsrv' = [fsrv EXCEPT !.file = None, !.status = "expired"]
    /\ UNCHANGED <<puts, nputs, notFsrv>>

\* confirm_transfer by any authenticated user: the file is deleted and the
\* status set to 'confirmed'
confirm_transfer ==
    /\ fsrv.exists
    /\ fsrv.status # "confirmed"
    /\ fsrv' = [fsrv EXCEPT !.file = None, !.status = "confirmed"]
    /\ UNCHANGED <<puts, nputs, notFsrv>>

\* delete_transfer by the uploader: the file is deleted and the rows removed
delete_transfer ==
    /\ fsrv.exists
    /\ fsrv' = [fsrv EXCEPT !.file = None, !.exists = FALSE, !.received = {},
                            !.chunk_count = 0]
    /\ UNCHANGED <<puts, nputs, notFsrv>>

\* -------------------------------- upload client: hashing pass, then the start
MaxUpcChunks == 3     \* largest chunk_count of the file uploaded

\* UploadProgress states of upload.rs
STATE_HASHING == 1
STATE_UPLOADING == 2
UPC_CANCELLED == 5

\* the pass over the file is over: idx has run through 0..chunk_count
hash_pass_done_atFirstChunk(u) == u.idx >= 1

hash_pass_done(u) == u.idx >= u.chunk_count

UploadClient_new(n) ==
    [chunk_count |-> n, pc |-> "start", idx |-> 0, chunk_hashes |-> <<>>,
     cancelled |-> FALSE, state |-> 0, hashes_json |-> None,
     start_msg |-> None, offer |-> None]

\* upload_file / fast_upload_file up to the hashing pass
UpcStart ==
    /\ upc.pc = "start"
    /\ upc' = [upc EXCEPT !.pc = "hash", !.state = STATE_HASHING]
    /\ UNCHANGED notUpc

\* one iteration of the pass: Err on cancellation, or read, encrypt with the
\* derived nonce, hash, chunk_hashes.push
UpcHashChunk ==
    /\ upc.pc = "hash"
    /\ ~hash_pass_done(upc)
    /\ upc' = IF upc.cancelled THEN [upc EXCEPT !.pc = "err"]
              ELSE [upc EXCEPT !.idx = @ + 1,
                               !.chunk_hashes = Append(@, ChunkHash(upc.idx))]
    /\ UNCHANGED notUpc

\* after the pass: STATE_CANCELLED and Err if cancelled; otherwise the hashes are
\* stored in progress.hashes_json and the state becomes STATE_UPLOADING
UpcPublish ==
    /\ upc.pc = "hash"
    /\ hash_pass_done(upc)
    /\ upc' = IF upc.cancelled
              THEN [upc EXCEPT !.pc = "err", !.state = UPC_CANCELLED]
              ELSE [upc EXCEPT !.pc = "send", !.state = STATE_UPLOADING,
                               !.hashes_json = Some(upc.chunk_hashes)]
    /\ UNCHANGED notUpc

\* the POST /transfers body, or the FastUploadStart message, with chunk_hashes
UpcSendStart ==
    /\ upc.pc = "send"
    /\ upc' = [upc EXCEPT !.pc = "upload",
                          !.start_msg = Some([chunk_count |-> upc.chunk_count,
                                              chunk_hashes |-> upc.chunk_hashes])]
    /\ UNCHANGED notUpc

\* the host sets the cancelled flag
UpcCancel ==
    /\ ~upc.cancelled
    /\ upc.pc # "start"
    /\ upc' = [upc EXCEPT !.cancelled = TRUE]
    /\ UNCHANGED notUpc

\* haven_upload_hashes_json: the host reads hashes_json; with a value it sends
\* the offer to the receiver
UpcHostOffer ==
    /\ IsSome(upc.hashes_json)
    /\ upc.offer = None
    /\ upc' = [upc EXCEPT !.offer = upc.hashes_json]
    /\ UNCHANGED notUpc

\* ------------------------------------------------------------------ TCP relay
UID_LEN == 1                 \* bytes of a uid in a frame, scaled from 16
MaxTcpConns == 3             \* TCP connections accepted
MaxTcpFrames == 2            \* frames read from the clients
USER_CHANNEL_CAPACITY == 1   \* capacity of a user's outbound channel, from 256

FRAME_FILE_CHUNK == 16
FRAME_FILE_ACK == 17
FRAME_FILE_DONE == 18
FRAME_FILE_CANCEL == 19

TcpUsers == {1, 2}           \* the users with a valid token (claims.sub)
TcpUids == {1, 2, 3}         \* the uids a client may write in a frame

\* Uuid::as_bytes and Uuid::from_bytes, for uids of UID_LEN equal bytes
UuidBytes(u) == [k \in 1 .. UID_LEN |-> u]
UuidFromBytes(b) == b[1]

\* [type(1)][target_uid][transfer_id][chunk_idx][payload], cut at any length
TcpFullFrame(t, u) == <<t>> \o UuidBytes(u) \o UuidBytes(7) \o <<0, 9>>
TcpFrames ==
    {SubSeq(TcpFullFrame(t, u), 1, n) :
        t \in {FRAME_FILE_CHUNK, FRAME_FILE_DONE, 32},
        u \in TcpUids, n \in {2 * UID_LEN, 1 + 2 * UID_LEN, 3 + 2 * UID_LEN}}

\* minimum length of a frame of type t: 37 = 1+16+16+4 for FileChunk and FileAck,
\* 33 = 1+16+16 for FileDone and FileCancel
tcp_min_len(t) ==
    IF t \in {FRAME_FILE_CHUNK, FRAME_FILE_ACK} THEN 1 + 2 * UID_LEN + 1
    ELSE 1 + 2 * UID_LEN

\* frame[1..17]: the uid field
uid_field(frame) == SubSeq(frame, 2, 1 + UID_LEN)

\* the frame forwarded as it was read
swap_uid_none(frame, sender_id) == frame

\* frame[1..17].copy_from_slice(sender_id.as_bytes())
swap_uid(frame, sender_id) ==
    [k \in 1 .. Len(frame) |->
        IF k >= 2 /\ k <= 1 + UID_LEN THEN UuidBytes(sender_id)[k - 1] ELSE frame[k]]

TcpConnNew == [st |-> "new", user_id |-> 0, rx |-> <<>>, written |-> <<>>]

TcpRelayState_new ==
    [connections |-> [u \in TcpUsers |-> 0],
     conn |-> [c \in 1 .. MaxTcpConns |-> TcpConnNew],
     nframes |-> 0]

\* handle_connection up to the read loop: a token that does not decode is
\* rejected; otherwise the user's entry of connections is replaced by the tx of
\* a new channel and the writer task is spawned
TcpHandshake(c, valid, user_id) ==
    /\ tcp.conn[c].st = "new"
    /\ \A d \in 1 .. (c - 1) : tcp.conn[d].st # "new"
    /\ IF ~valid
       THEN tcp' = [tcp EXCEPT !.conn[c].st = "closed"]
       ELSE tcp' = [tcp EXCEPT
                      !.conn[c] = [st |-> "open", user_id |-> user_id,
                                   rx |-> <<>>, written |-> <<>>],
                      !.connections[user_id] = c]
    /\ UNCHANGED notTcp

\* send_to_user: try_send on the tx of connections[user_id], if there is one;
\* the frame is dropped if the channel is full
send_to_user(t, user_id, data) ==
    IF user_id \notin TcpUsers THEN t
    ELSE LET c == t.connections[user_id]
         IN IF c = 0 \/ Len(t.conn[c].rx) >= USER_CHANNEL_CAPACITY THEN t
            ELSE [t EXCEPT !.conn[c].rx = Append(@, data)]

\* one iteration of read_loop on a frame read whole: frames of an unknown type or
\* too short are skipped, the others have the uid field replaced by sender_id and
\* go to the user the field named
TcpReadFrame(c, frame) ==
    /\ tcp.conn[c].st = "open"
    /\ tcp.nframes < MaxTcpFrames
    /\ LET sender_id == tcp.conn[c].user_id
           msg_type == frame[1]
           known == msg_type \in {FRAME_FILE_CHUNK, FRAME_FILE_ACK, FRAME_FILE_DONE,
                                  FRAME_FILE_CANCEL}
           t1 == [tcp EXCEPT !.nframes = @ + 1]
       IN tcp' = IF ~known \/ Len(frame) < tcp_min_len(msg_type) THEN t1
                 ELSE send_to_user(t1, UuidFromBytes(uid_field(frame)),
                                   [data |-> swap_uid(frame, sender_id),
                                    orig |-> frame, from |-> c])
    /\ UNCHANGED notTcp

\* the writer task: rx.recv() and the write of the frame to the connection
TcpWrite(c) ==
    /\ tcp.conn[c].st = "open"
    /\ tcp.conn[c].rx # <<>>
    /\ tcp' = [tcp EXCEPT !.conn[c].rx = Tail(@),
                          !.conn[c].written = Append(@, Head(tcp.conn[c].rx))]
    /\ UNCHANGED notTcp

\* read_loop returns (disconnect, invalid length, read error): the writer task
\* is aborted and the entry of user_id is removed from connections
TcpDisconnect(c) ==
    /\ tcp.conn[c].st = "open"
    /\ tcp' = [tcp EXCEPT !.conn[c].st = "closed", !.conn[c].rx = <<>>,
                          !.connections[tcp.conn[c].user_id] = 0]
    /\ UNCHANGED notTcp

\* -------------------------------------------------------------- fast download
\* DownloadProgress.state values (upload.rs, STATE_UPLOADING as STATE_DOWNLOADING)
STATE_DOWNLOADING == 2
FDL_CANCELLED == 5

FastDownload_new ==
    [pc |-> "start", ws |-> <<>>, ws_closed |-> FALSE, srv |-> "idle",
     srv_nack |-> <<>>, srv_nacks |-> 0, poll |-> "idle", state |-> 0,
     bytes_done |-> 0, cancelled |-> FALSE, idx |-> 0, observed |-> 0]

\* fast_download_file up to the wait for FastDownloadReady: STATE_DOWNLOADING,
\* the UDP socket, FastDownloadStart on the WebSocket
FdStart ==
    /\ fdl.pc = "start"
    /\ fdl' = [fdl EXCEPT !.pc = "wait", !.state = STATE_DOWNLOADING,
                          !.ws = Append(@, [type |-> "FastDownloadStart"])]
    /\ UNCHANGED notFdl

\* handle_fast_transfer_ws reads a message of the client. FastDownloadStart:
\* FastDownloadReady is sent and run_raw_sender started. While the sender runs:
\* a FastNack goes to the sender's nack_tx, a Close ends the loop
FdServerWs ==
    /\ \/ fdl.ws # <<>>
       \/ fdl.ws = <<>> /\ fdl.ws_closed /\ fdl.srv = "blast"
    /\ IF fdl.ws = <<>>
       THEN fdl' = [fdl EXCEPT !.srv = "done"]
       ELSE LET msg == Head(fdl.ws)
            IN fdl' =
                 IF msg.type = "FastDownloadStart" /\ fdl.srv = "idle"
                 THEN [fdl EXCEPT !.ws = Tail(@), !.srv = "blast",
                                  !.pc = IF fdl.pc = "wait" THEN "ready" ELSE @]
                 ELSE IF msg.type = "FastNack" /\ fdl.srv = "blast"
                 THEN [fdl EXCEPT !.ws = Tail(@),
                                  !.srv_nacks = @ + 1,
                                  !.srv_nack = IF Len(@) < NackCap
                                               THEN Append(@, msg.nack) ELSE @]
                 ELSE [fdl EXCEPT !.ws = Tail(@)]
    /\ UNCHANGED notFdl

\* run_raw_sender on the server: in the chunk loop, the next chunk is blasted and
\* the NACKs pending on nack_rx are served; in the drain phase, one NACK is served
FdSenderStep ==
    /\ fdl.srv = "blast"
    /\ sNext < chunk_count \/ fdl.srv_nack # <<>>
    /\ LET q == IF sNext < chunk_count THEN fdl.srv_nack ELSE <<Head(fdl.srv_nack)>>
           served == UNION { retransmit_frames(q[i].chunk_index,
                                 EncData(q[i].chunk_index),
                                 frames_for_chunk(Len(EncData(q[i].chunk_index))),
                                 SeqToSet(q[i].missing_frames)) : i \in 1 .. Len(q) }
           blasted_now == IF sNext < chunk_count
                          THEN blast_chunk(sNext, EncData(sNext),
                                           frames_for_chunk(Len(EncData(sNext))))
                          ELSE {}
       IN /\ net' = Sent(blasted_now \cup served)
          /\ fdl' = [fdl EXCEPT !.srv_nack = IF sNext < chunk_count THEN <<>>
                                             ELSE Tail(@)]
    /\ sNext' = IF sNext < chunk_count THEN sNext + 1 ELSE sNext
    /\ UNCHANGED <<file_size, chunk_hashes, state, cancelled, chunks_complete,
                   bytes_done, retransmits, nackQ, pcVac, vacFrame, frameQ, pcAsm,
                   bitfields, buffers, completed, completed_count, scans,
                   assembledQ, pcWr, chunks_written, file, pcMain, handed,
                   seenFrames, lastDup, mismatch, cancelInFlight>>
    /\ UNCHANGED notFdlBlast

\* the poll task: progress.bytes_done takes the value of the receiver's
\* bytes_done; the task ends once the receiver's state is final
FdPoll ==
    /\ fdl.pc = "ready"
    /\ pcMain # "start"
    /\ fdl.poll \in {"idle", "run"}
    /\ fdl' = [fdl EXCEPT !.bytes_done = bytes_done,
                          !.poll = IF state \in {STATE_COMPLETE, STATE_ERROR,
                                                 STATE_CANCELLED}
                                   THEN "ended" ELSE "run"]
    /\ UNCHANGED notFdl

\* receiver_handle.await, poll_handle.abort(), recv_result?; then
\* STATE_DOWNLOADING and bytes_done.store(0) before the decryption pass
FdJoin ==
    /\ fdl.pc = "ready"
    /\ Returned
    /\ fdl' = IF pcMain = "retOk"
              THEN [fdl EXCEPT !.pc = "decrypt", !.poll = "ended",
                               !.state = STATE_DOWNLOADING, !.bytes_done = 0]
              ELSE [fdl EXCEPT !.pc = "err", !.poll = "ended", !.ws_closed = TRUE]
    /\ UNCHANGED notFdl

\* one iteration of the decryption pass: STATE_CANCELLED and Err if cancelled,
\* otherwise the chunk is decrypted, written, and its encrypted size added to
\* bytes_done; after the last chunk the function returns and the WebSocket closes
FdDecrypt ==
    /\ fdl.pc = "decrypt"
    /\ fdl' = IF fdl.idx >= Len(chunk_hashes)
              THEN [fdl EXCEPT !.pc = "done", !.ws_closed = TRUE]
              ELSE IF fdl.cancelled
              THEN [fdl EXCEPT !.pc = "err", !.state = FDL_CANCELLED,
                               !.ws_closed = TRUE]
              ELSE [fdl EXCEPT !.idx = @ + 1,
                               !.bytes_done = @ + EncLen(fdl.idx)]
    /\ UNCHANGED notFdl

\* the host sets the cancelled flag of the DownloadProgress
FdCancel ==
    /\ ~fdl.cancelled
    /\ fdl.pc # "start"
    /\ fdl' = [fdl EXCEPT !.cancelled = TRUE]
    /\ UNCHANGED notFdl

\* haven_transfer_progress: the host reads bytes_done
FdHostPoll ==
    /\ fdl.pc # "start"
    /\ fdl.observed # fdl.bytes_done
    /\ fdl' = [fdl EXCEPT !.observed = fdl.bytes_done]
    /\ UNCHANGED notFdl

\* ------------------------------------------------------------ specification
\* the blast transfer of a one-byte file, not started
BlastIdle ==
    /\ InitBlast
    /\ file_size = 1
    /\ chunk_hashes = <<Sha256Hex(EncData(0))>>

\* the components that take no part in a specification, at rest
BitfieldIdle == bitfield = ChunkBitfield_new(1)

\* a controller of the smallest configuration, just constructed
CcIdle ==
    /\ cc = CongestionController_new([initial_rate |-> 1, min_rate |-> 1,
                                      max_rate |-> 1], 0)
    /\ cc_now = 0
    /\ cc_ret = None

\* the HTP transfer of an empty file, not started
HtpIdle == h_file_size = 0 /\ InitHtpParties

\* ------------------------------- desktop client: a transfer over the TCP relay
\* One file goes from send_file_task of the sending client, through the relay's
\* outbound channel of the receiving user, to reader_loop and receive_file_task
\* of the receiving client; FileAck and FileCancel frames come back to the
\* reader_loop of the sending client. A chunk travels as its index.
MaxCliChunks == 3     \* chunks of the file sent
SEND_WINDOW == 3      \* scaled from 32
ACK_INTERVAL == 1     \* scaled from 8
CliRxCap == 4         \* capacity of the receive task's channel, scaled from 256
MaxOther == 1         \* frames of other transfers relayed to the receiving user
I64_MAX == 2147483647 \* the CANCEL sentinel of last_acked, scaled from i64::MAX
ACK_FINAL == 65535    \* the chunk index of the final ACK, scaled from 0xFFFFFFFF

CliFrame(type, chunk_index) == [type |-> type, chunk_index |-> chunk_index]

TransferEngine_new(n) ==
    [n |-> n,
     \* send_file_task
     s_pc |-> "flow", chunk_index |-> 0, woken |-> FALSE,
     \* AckState and the reader_loop of the sending client
     last_acked |-> -1, rd_pc |-> "idle", back |-> <<>>,
     \* the sending client's connection, the relay's channel of the receiver
     up |-> <<>>, relayq |-> <<>>, others |-> 0,
     \* the receiving client: pending_receives entry, channel, task, file
     registered |-> TRUE, rx |-> <<>>, r_pc |-> "recv", written |-> <<>>,
     r_cancel |-> FALSE]

\* send_file_task: the flow-control test for the chunk in hand, and, when the
\* window has room, the write of its frame; past the last chunk the next read
\* finds the end of the file and the FileDone frame is written
SfFlow ==
    /\ cli.s_pc = "flow"
    /\ LET loaded == cli.last_acked
       IN  IF cli.chunk_index >= cli.n
           THEN cli' = [cli EXCEPT !.up = Append(@, CliFrame("Done", 0)),
                                   !.s_pc = "done"]
           ELSE IF loaded = I64_MAX
           THEN cli' = [cli EXCEPT !.s_pc = "err"]
           ELSE IF cli.chunk_index - loaded < SEND_WINDOW
           THEN cli' = [cli EXCEPT
                          !.up = Append(@, CliFrame("Chunk", cli.chunk_index)),
                          !.chunk_index = @ + 1]
           ELSE cli' = [cli EXCEPT !.s_pc = "notified"]
    /\ UNCHANGED notCli

\* send_file_task: ack_state.notify.notified().await: the Notified future is
\* created, and from now on notify_waiters wakes it
SfNotified ==
    /\ cli.s_pc = "notified"
    /\ cli' = [cli EXCEPT !.s_pc = "waiting", !.woken = FALSE]
    /\ UNCHANGED notCli

\* send_file_task: the awaited future completes
SfWake ==
    /\ cli.s_pc = "waiting"
    /\ cli.woken
    /\ cli' = [cli EXCEPT !.s_pc = "flow", !.woken = FALSE]
    /\ UNCHANGED notCli

\* the relay: read_loop takes the next frame of the sending client and
\* send_to_user does try_send on the receiving user's channel
RelayForward ==
    /\ cli.up # <<>>
    /\ cli' = [cli EXCEPT
                 !.up = Tail(@),
                 !.relayq = IF Len(@) < USER_CHANNEL_CAPACITY
                            THEN Append(@, Head(cli.up)) ELSE @]
    /\ UNCHANGED notCli

\* the relay: a frame of another transfer for the receiving user takes a place
\* in the user's channel
RelayOther ==
    /\ cli.others < MaxOther
    /\ Len(cli.relayq) < USER_CHANNEL_CAPACITY
    /\ cli' = [cli EXCEPT !.others = @ + 1,
                          !.relayq = Append(@, CliFrame("Other", 0))]
    /\ UNCHANGED notCli

\* reader_loop of the receiving client: the next frame the relay's writer task
\* has written; a frame of this transfer goes to the receive task by try_send
RlFrame ==
    /\ cli.relayq # <<>>
    /\ LET f == Head(cli.relayq)
       IN  cli' = [cli EXCEPT
                     !.relayq = Tail(@),
                     !.rx = IF f.type # "Other" /\ cli.registered
                               /\ Len(@) < CliRxCap
                            THEN Append(@, f) ELSE @]
    /\ UNCHANGED notCli

\* receive_file_task: one frame of rx
RfFrame ==
    /\ cli.r_pc = "recv"
    /\ cli.rx # <<>>
    /\ LET f == Head(cli.rx)
       IN  IF f.type = "Chunk"
           THEN cli' = [cli EXCEPT
                          !.rx = Tail(@),
                          !.written = Append(@, f.chunk_index),
                          !.back = IF f.chunk_index > 0
                                      /\ f.chunk_index % ACK_INTERVAL = 0
                                   THEN Append(@, CliFrame("Ack", f.chunk_index))
                                   ELSE @]
           ELSE cli' = [cli EXCEPT
                          !.rx = Tail(@),
                          !.back = Append(@, CliFrame("Ack", ACK_FINAL)),
                          !.r_pc = "complete",
                          !.registered = FALSE]
    /\ UNCHANGED notCli

\* transfer_cancel on the receiving client: the registration is removed, the
\* receive task finds its channel closed, and FileCancel goes to the peer
transfer_cancel ==
    /\ cli.r_pc = "recv"
    /\ ~cli.r_cancel
    /\ cli' = [cli EXCEPT !.registered = FALSE, !.rx = <<>>, !.r_pc = "err",
                          !.r_cancel = TRUE,
                          !.back = Append(@, CliFrame("Cancel", 0))]
    /\ UNCHANGED notCli

\* reader_loop of the sending client, FileAck or FileCancel: the store to
\* last_acked
RlStore ==
    /\ cli.rd_pc = "idle"
    /\ cli.back # <<>>
    /\ IF cli.s_pc \in {"done", "err"}
       THEN \* the send task has ended and removed its send_acks entry
            cli' = [cli EXCEPT !.back = Tail(@)]
       ELSE cli' = [cli EXCEPT
                      !.back = Tail(@),
                      !.last_acked = IF Head(cli.back).type = "Cancel"
                                     THEN I64_MAX
                                     ELSE Head(cli.back).chunk_index,
                      !.rd_pc = "notify"]
    /\ UNCHANGED notCli

\* reader_loop of the sending client: notify_waiters, which wakes the futures
\* that exist now and stores no permit
RlNotify ==
    /\ cli.rd_pc = "notify"
    /\ cli' = [cli EXCEPT !.rd_pc = "idle",
                          !.woken = IF cli.s_pc = "waiting" THEN TRUE ELSE @]
    /\ UNCHANGED notCli

\* --------------------------------- blast sender: the Blaster's pacing rate
INITIAL_RATE_BPS == 100000000  \* protocol.rs: 800_000_000 / 8
MaxPaceNacks == 95             \* NACKs the Blaster serves
MaxPaceAcks == 2               \* ACKs the Blaster takes
PaceFrameCounts == {1, 11}     \* frame counts of the chunks NACKed

\* (rate_bps as f64 * RATE_DECREASE) as u64, RATE_DECREASE = 0.80: the product
\* cut to its integer part
rate_decreased(rate_bps) == (rate_bps * 4) \div 5

\* (rate_bps as f64 * RATE_INCREASE).min(INITIAL_RATE_BPS as f64) as u64,
\* RATE_INCREASE = 1.10
rate_increased(rate_bps) == Min((rate_bps * 11) \div 10, INITIAL_RATE_BPS)

\* loss_pct > LOSS_THRESHOLD_HIGH, with loss_pct = missing / fc and the
\* threshold 0.10
loss_high(missing, fc) == 10 * missing > fc

\* blast_chunk: frames are spaced by nanos_per_frame, which is 0 for rate 0
blast_paced(rate_bps) == rate_bps > 0

Blaster_new ==
    [rate_bps |-> INITIAL_RATE_BPS, nacks |-> 0, acks |-> 0, paced |-> TRUE]

\* run_sender: a NACK for a cached chunk of fc frames is served and the loss
\* fraction of its `missing` frames is tested
PaceNack ==
    /\ pace.nacks < MaxPaceNacks
    /\ \E fc \in PaceFrameCounts : \E missing \in {1, fc} :
          pace' = [pace EXCEPT
                     !.nacks = @ + 1,
                     !.rate_bps = IF loss_high(missing, fc)
                                  THEN rate_decreased(@) ELSE @]
    /\ UNCHANGED notPace

\* run_sender: a chunk ACK is taken
PaceAck ==
    /\ pace.acks < MaxPaceAcks
    /\ pace' = [pace EXCEPT !.acks = @ + 1,
                            !.rate_bps = rate_increased(@)]
    /\ UNCHANGED notPace

\* run_sender: the next chunk is blasted at the current rate
PaceBlast ==
    /\ pace' = [pace EXCEPT !.paced = blast_paced(pace.rate_bps)]
    /\ UNCHANGED notPace

\* ------------------------------------- haven_transfer: the FFI session table
MaxFfiSessions == 3   \* calls of htp_send_file and htp_recv_file

FfiIds == 1 .. MaxFfiSessions

\* NEXT_SESSION_ID, SESSIONS (its keys), and for each session id the position
\* of the call that creates it, the state of its transfer thread, and what the
\* last htp_progress call for it found
Sessions_new ==
    [next_session_id |-> 1, sessions |-> {},
     call |-> [i \in FfiIds |-> "none"],
     thread |-> [i \in FfiIds |-> "none"],
     kind |-> [i \in FfiIds |-> "send"],
     progress |-> [i \in FfiIds |-> "unasked"]]

\* htp_send_file / htp_recv_file up to the spawn of the transfer thread: the
\* session id is taken and the thread started
htp_start(kind) ==
    /\ ffi.next_session_id <= MaxFfiSessions
    /\ \A i \in FfiIds : ffi.call[i] # "spawned"
    /\ LET session_id == ffi.next_session_id
       IN  ffi' = [ffi EXCEPT !.next_session_id = @ + 1,
                              !.call[session_id] = "spawned",
                              !.thread[session_id] = "run",
                              !.kind[session_id] = kind]
    /\ UNCHANGED notFfi

\* htp_send_file / htp_recv_file after the spawn: sessions().lock().insert, and
\* the session id is returned to the caller
htp_register(session_id) ==
    /\ ffi.call[session_id] = "spawned"
    /\ ffi' = [ffi EXCEPT !.sessions = @ \cup {session_id},
                          !.call[session_id] = "returned"]
    /\ UNCHANGED notFfi

\* the transfer thread: run_sender or run_receiver has returned, and the
\* closure ends with sessions().lock().remove(&session_id)
htp_thread_exit(session_id) ==
    /\ ffi.thread[session_id] = "run"
    /\ ffi' = [ffi EXCEPT !.sessions = @ \ {session_id},
                          !.thread[session_id] = "done"]
    /\ UNCHANGED notFfi

\* htp_progress for a session id the caller has been given: -1.0 if the table
\* has no entry, the progress of its stats otherwise
htp_progress(session_id) ==
    /\ ffi.call[session_id] = "returned"
    /\ ffi' = [ffi EXCEPT !.progress[session_id] =
                 IF session_id \in ffi.sessions THEN "found" ELSE "none"]
    /\ UNCHANGED notFfi

\* the file server with a transfer of one byte and no request
FsrvIdle ==
    /\ fsrv = create_transfer(1)
    /\ puts = [p \in 1 .. PutSlots |-> PutIdle]
    /\ nputs = 0

PipesIdle ==
    /\ InitRelay /\ BlastIdle /\ SenderIdle /\ s_chunk_count = 1
    /\ BitfieldIdle /\ CcIdle /\ HtpIdle /\ dropped = 0

\* no chunk hashed by run_sender, and an upload client not started
HashIdle == s_chunk_hashes = <<>> /\ s_hashes_json = None
UpcIdle == upc = UploadClient_new(1)

TcpIdle == tcp = TcpRelayState_new

FdlIdle == fdl = FastDownload_new

CliIdle == cli = TransferEngine_new(1)
PaceIdle == pace = Blaster_new
FfiIdle == ffi = Sessions_new
LateIdle == CliIdle /\ PaceIdle /\ FfiIdle

ExtIdle == FsrvIdle /\ HashIdle /\ UpcIdle /\ TcpIdle /\ FdlIdle /\ LateIdle

OthersIdle == BitfieldIdle /\ CcIdle /\ HtpIdle /\ dropped = 0 /\ ExtIdle

Init == InitBlast /\ InitRelay /\ s_chunk_count = 1 /\ SenderIdle /\ OthersIdle

Next ==
    \/ SenderBlast
    \/ SenderDrainNack
    \/ Lose
    \/ Cancel
    \/ Start
    \/ MainJoinAsm
    \/ MainJoinWr
    \/ VacRecv
    \/ VacExit
    \/ VacSend
    \/ AsmTop
    \/ AsmFrame
    \/ AsmTimeout
    \/ AsmDisconnected
    \/ WrChunk
    \/ WrClosed
    \/ WrFinish

Spec == Init /\ [][Next]_vars

\* ---- the blast receiver fed with datagrams that do not come from the Blaster;
\* no cancellation, so the Vacuum does not leave before the Assembler
InitForged ==
    /\ file_size \in 1 .. MaxFileSize
    /\ chunk_hashes = [i \in 1 .. ChunkCountOf(file_size) |->
                          Sha256Hex(EncData(i - 1))]
    /\ BlastAtStart
    /\ InitRelay /\ s_chunk_count = 1 /\ SenderIdle /\ OthersIdle

NextForged ==
    \/ ForgeFrame
    \/ Start
    \/ MainJoinAsm
    \/ MainJoinWr
    \/ VacRecv
    \/ VacExit
    \/ VacSend
    \/ AsmTop
    \/ AsmFrame
    \/ AsmTimeout
    \/ WrChunk
    \/ WrClosed
    \/ WrFinish

SpecForged == InitForged /\ [][NextForged]_vars

InitR == BlastIdle /\ InitRelay /\ s_chunk_count = 1 /\ SenderIdle /\ OthersIdle

NextRelay ==
    \/ HandleAuth
    \/ HandleHtp
    \/ HandleUnknown
    \/ cleanup_stale

SpecRelay == InitR /\ [][NextRelay]_vars

\* the relay with its clock followed between the runs of cleanup_stale
NextCleanup ==
    \/ HandleAuth
    \/ HandleHtp
    \/ RelayTimePasses
    \/ cleanup_stale_now

SpecCleanup == InitR /\ [][NextCleanup]_vars

InitS == BlastIdle /\ InitRelay /\ InitSender /\ OthersIdle

ReaderStep == RdStep \/ RdSend
EncryptorStep == EncChunk \/ EncClosed \/ EncSend
BlasterStep == BlChunk \/ BlClosed \/ BlDrain \/ BlDeadline

NextSender ==
    \/ SStart
    \/ SCancel
    \/ SMainJoinRd
    \/ SMainJoinEnc
    \/ SMainJoinBl
    \/ ReaderStep
    \/ EncryptorStep
    \/ BlasterStep
    \/ CtlAck
    \/ CtlNack

SpecSender == InitS /\ [][NextSender]_vars

\* The receiver and the sender are two processes. A behaviour of SpecCancel
\* follows one of them: the receiver of Spec while run_sender has not been
\* called, or the sender of SpecSender while run_receiver has not been called.
\* Every thread that can take a step eventually takes one.
VacStep == VacRecv \/ VacExit \/ VacSend
AsmStep == AsmTop \/ AsmFrame \/ AsmTimeout \/ AsmDisconnected
WrStep == WrChunk \/ WrClosed \/ WrFinish

BlastUntouched == pcMain = "start" /\ sNext = 0 /\ cancelled = 0
SenderUntouched == pcSMain = "start" /\ s_cancelled = 0

\* the receiver half: a file of one chunk, of one frame or more, with its hash
InitCancel ==
    /\ InitRelay
    /\ OthersIdle
    /\ \/ /\ InitBlast
          /\ file_size <= ChunkSize
          /\ chunk_hashes = <<Sha256Hex(EncData(0))>>
          /\ s_chunk_count = 1
          /\ SenderIdle
       \/ BlastIdle /\ InitSender

NextCancel ==
    \/ SenderUntouched /\ Next
    \/ BlastUntouched /\ NextSender

SpecCancel ==
    /\ InitCancel
    /\ [][NextCancel]_vars
    /\ WF_vars(VacStep) /\ WF_vars(AsmStep) /\ WF_vars(WrStep)
    /\ WF_vars(ReaderStep) /\ WF_vars(EncryptorStep) /\ WF_vars(BlasterStep)

\* ---- a ChunkBitfield driven by arbitrary calls
MaxFrameCount == 3
MaxSetIndex == 5

\* the frame indices given to set: the first ones, and the first one whose word
\* lies outside the bitfield
SetIndices == (0 .. MaxSetIndex) \cup {BITFIELD_WORDS * WORD_BITS}

\* bitfield.set(frame_index)
BfSet ==
    /\ \E i \in SetIndices : bitfield' = ChunkBitfield_set(bitfield, i).bf
    /\ UNCHANGED notBitfield

\* bitfield.reset(frame_count)
BfReset ==
    /\ \E fc \in 1 .. MaxFrameCount : bitfield' = ChunkBitfield_new(fc)
    /\ UNCHANGED notBitfield

InitBitfield ==
    /\ BlastIdle /\ InitRelay /\ s_chunk_count = 1 /\ SenderIdle /\ CcIdle
    /\ HtpIdle
    /\ dropped = 0
    /\ ExtIdle
    /\ \E fc \in 1 .. MaxFrameCount : bitfield = ChunkBitfield_new(fc)

NextBitfield == BfSet \/ BfReset

SpecBitfield == InitBitfield /\ [][NextBitfield]_vars

\* ---- the congestion controller driven by its three inputs and the clock
InitCc ==
    /\ BlastIdle /\ InitRelay /\ s_chunk_count = 1 /\ SenderIdle /\ BitfieldIdle
    /\ HtpIdle
    /\ dropped = 0
    /\ ExtIdle
    /\ \E config \in Configs : cc = CongestionController_new(config, 0)
    /\ cc_now = 0
    /\ cc_ret = None

NextCc == CcTick \/ CcRttSample \/ CcAck \/ CcUpdateRate

SpecCc == InitCc /\ [][NextCc]_vars

\* ---- one HTP transfer, of any file of up to MaxHtpFile bytes
InitHtp ==
    /\ BlastIdle /\ InitRelay /\ s_chunk_count = 1 /\ SenderIdle /\ BitfieldIdle
    /\ CcIdle
    /\ dropped = 0
    /\ ExtIdle
    /\ h_file_size \in 0 .. MaxHtpFile
    /\ InitHtpParties

NextHtp ==
    \/ HsPhase1
    \/ HsDrain
    \/ HsDeadline
    \/ HrHead
    \/ HrRecv
    \/ HrNack
    \/ HostAck
    \/ HtpCancel
    \/ HtpLose

SpecHtp == InitHtp /\ [][NextHtp]_vars

\* the HTP transfer over a path that also delivers altered datagrams
NextHtpForged ==
    \/ HsPhase1
    \/ HsDrain
    \/ HsDeadline
    \/ HrHead
    \/ HrRecv
    \/ HrRecvForged
    \/ HrNack
    \/ HostAck
    \/ HtpCancel
    \/ HtpLose

SpecHtpForged == InitHtp /\ [][NextHtpForged]_vars

\* ---- the sessions of the FFI, started by a host that polls their progress
InitFfi ==
    /\ PipesIdle /\ FsrvIdle /\ HashIdle /\ UpcIdle /\ TcpIdle /\ FdlIdle
    /\ CliIdle /\ PaceIdle
    /\ ffi = Sessions_new

NextFfi ==
    \/ \E kind \in {"send", "recv"} : htp_start(kind)
    \/ \E session_id \in FfiIds : htp_register(session_id)
    \/ \E session_id \in FfiIds : htp_thread_exit(session_id)
    \/ \E session_id \in FfiIds : htp_progress(session_id)

SpecFfi == InitFfi /\ [][NextFfi]_vars

\* ---- the pacing rate of the Blaster under NACKs and ACKs
InitPace ==
    /\ PipesIdle /\ FsrvIdle /\ HashIdle /\ UpcIdle /\ TcpIdle /\ FdlIdle
    /\ CliIdle /\ FfiIdle
    /\ pace = Blaster_new

NextPace ==
    \/ PaceNack
    \/ PaceAck
    \/ PaceBlast

SpecPace == InitPace /\ [][NextPace]_vars

\* ---- one transfer of the desktop client over the TCP relay
InitCli ==
    /\ PipesIdle /\ FsrvIdle /\ HashIdle /\ UpcIdle /\ TcpIdle /\ FdlIdle
    /\ PaceIdle /\ FfiIdle
    /\ \E n \in 1 .. MaxCliChunks : cli = TransferEngine_new(n)

NextCli ==
    \/ SfFlow
    \/ SfNotified
    \/ SfWake
    \/ RelayForward
    \/ RelayOther
    \/ RlFrame
    \/ RfFrame
    \/ transfer_cancel
    \/ RlStore
    \/ RlNotify

SpecCli == InitCli /\ [][NextCli]_vars

\* ---- the blast transfer of a file of two chunks of two frames each, where the
\* ---- only loss is the loss of first transmissions, which is counted
InitLoss ==
    /\ file_size = 2 * ChunkSize
    /\ chunk_hashes = [i \in 1 .. 2 |-> Sha256Hex(EncData(i - 1))]
    /\ BlastAtStart
    /\ InitRelay /\ s_chunk_count = 1 /\ SenderIdle /\ OthersIdle

NextLoss ==
    \/ SenderBlast
    \/ SenderDrainNack
    \/ LoseFirst
    \/ Cancel
    \/ Start
    \/ MainJoinAsm
    \/ MainJoinWr
    \/ VacRecv
    \/ VacExit
    \/ VacSend
    \/ AsmTop
    \/ AsmFrame
    \/ AsmTimeout
    \/ AsmDisconnected
    \/ WrChunk
    \/ WrClosed
    \/ WrFinish

SpecLoss == InitLoss /\ [][NextLoss]_vars


\* ---- the file server with one transfer, its owner and another user sending
\* ---- chunk PUTs, and the transfer expiring, confirmed or deleted at any time
InitFsrv ==
    /\ \E fsize \in 1 .. MaxUpFile : fsrv = create_transfer(fsize)
    /\ puts = [p \in 1 .. PutSlots |-> PutIdle]
    /\ nputs = 0
    /\ PipesIdle /\ HashIdle /\ UpcIdle /\ TcpIdle /\ FdlIdle /\ LateIdle

NextFsrv ==
    \/ \E p \in 1 .. PutSlots, sub \in UploadUsers,
          chunk_index \in 0 .. expected_chunks(MaxUpFile), body \in UpBodies :
            UpBegin(p, sub, chunk_index, body)
    \/ \E p \in 1 .. PutSlots : UpWrite(p)
    \/ \E p \in 1 .. PutSlots : UpMark(p)
    \/ cleanup_expired
    \/ confirm_transfer
    \/ delete_transfer

SpecFsrv == InitFsrv /\ [][NextFsrv]_vars

\* ---- the hashes of a file: either run_sender's pipeline runs, or the upload
\* ---- client's hashing pass, with the host cancelling and reading the hashes
InitHashes ==
    /\ InitRelay /\ BlastIdle
    /\ BitfieldIdle /\ CcIdle /\ HtpIdle /\ dropped = 0
    /\ FsrvIdle /\ HashIdle /\ TcpIdle /\ FdlIdle /\ LateIdle
    /\ \/ InitSender /\ UpcIdle
       \/ /\ s_chunk_count = 1 /\ SenderIdle
          /\ \E n \in 1 .. MaxUpcChunks : upc = UploadClient_new(n)

NextUpc ==
    \/ UpcStart
    \/ UpcHashChunk
    \/ UpcPublish
    \/ UpcSendStart
    \/ UpcCancel
    \/ UpcHostOffer

NextHashes ==
    \/ upc.pc = "start" /\ NextSender
    \/ SenderUntouched /\ NextUpc

SpecHashes == InitHashes /\ [][NextHashes]_vars

\* ---- the TCP relay with connections opened, authenticated and closed in any
\* ---- order, and clients writing any frame
InitTcp == PipesIdle /\ FsrvIdle /\ HashIdle /\ UpcIdle /\ TcpIdle /\ FdlIdle /\ LateIdle

NextTcp ==
    \/ \E c \in 1 .. MaxTcpConns, valid \in BOOLEAN, user_id \in TcpUsers :
          TcpHandshake(c, valid, user_id)
    \/ \E c \in 1 .. MaxTcpConns, frame \in TcpFrames : TcpReadFrame(c, frame)
    \/ \E c \in 1 .. MaxTcpConns : TcpWrite(c)
    \/ \E c \in 1 .. MaxTcpConns : TcpDisconnect(c)

SpecTcp == InitTcp /\ [][NextTcp]_vars

\* ---- a fast download of a file of one chunk: the client task with its receive
\* ---- pipeline, the control WebSocket, and the server session with its sender.
\* ---- Every thread and task that can take a step eventually takes one; the
\* ---- network may lose datagrams, and the host may cancel and poll. nackQ is
\* ---- the channel behind the client's nack_callback (nack_tx.try_send), whose
\* ---- receiving end is never read.
InitFdl ==
    /\ file_size \in 1 .. ChunkSize
    /\ chunk_hashes = <<Sha256Hex(EncData(0))>>
    /\ BlastAtStart
    /\ InitRelay /\ s_chunk_count = 1 /\ SenderIdle
    /\ BitfieldIdle /\ CcIdle /\ HtpIdle /\ dropped = 0
    /\ FsrvIdle /\ HashIdle /\ UpcIdle /\ TcpIdle /\ FdlIdle /\ LateIdle

\* run_receiver as fast_download_file runs it: its ReceiverProgress is never
\* cancelled and the declared hashes are those of the file, so the Assembler
\* never finds the frame channel disconnected and the Writer's channel is never
\* closed before the last chunk
FdMainStep == (fdl.pc = "ready" /\ Start) \/ MainJoinAsm \/ MainJoinWr
FdAsmStep == AsmTop \/ AsmFrame \/ AsmTimeout
FdWrStep == WrChunk \/ WrFinish

FdReceiverStep == FdMainStep \/ VacStep \/ FdAsmStep \/ FdWrStep

FdClientStep == FdStart \/ FdPoll \/ FdJoin \/ FdDecrypt

NextFdl ==
    \/ FdReceiverStep
    \/ FdClientStep
    \/ FdServerWs
    \/ FdSenderStep
    \/ Lose
    \/ FdCancel
    \/ FdHostPoll

SpecFdl ==
    /\ InitFdl
    /\ [][NextFdl]_vars
    /\ WF_vars(FdMainStep)
    /\ WF_vars(VacStep) /\ WF_vars(FdAsmStep) /\ WF_vars(FdWrStep)
    /\ WF_vars(FdClientStep) /\ WF_vars(FdServerWs) /\ WF_vars(FdSenderStep)

\* ============================================================ blast transfer
\* C1: for every chunk, whatever the order, loss and duplication of its frames,
\* every buffer the Assembler hands to the Writer for the chunk (which it does once
\* every frame of the chunk has been taken at least once) equals the sender's
\* encrypted bytes of the chunk.
C1_AssembledEqualsSent ==
    \A c \in DOMAIN handed :
        \A i \in 1 .. Len(handed[c]) : handed[c][i] = EncData(c)

\* a chunk of two or more frames was handed to the Writer after a NACK scan had
\* asked for frames of it again
C1_Witness ==
    \E c \in DOMAIN handed :
        /\ Len(handed[c]) = 1
        /\ frames_for_chunk(EncLen(c)) >= 2
        /\ retransmits > 0

\* C2: the state word is COMPLETE only when every chunk has been assembled,
\* hash-verified and written.
C2_CompleteOnlyAfterAllWritten ==
    state = STATE_COMPLETE => chunks_written = chunk_count

\* C3: once the Writer has found a chunk whose SHA-256 differs from the declared
\* hash, the state word is never COMPLETE, and it is ERROR when run_receiver has
\* returned.
C3_MismatchIsError ==
    mismatch => /\ state # STATE_COMPLETE
                /\ Returned => state = STATE_ERROR

\* C8: a step of the Assembler that takes a frame it has taken before leaves the
\* chunk buffers, the bitfields with their counts, the completed chunks and their
\* number, and what is handed to the Writer, as they were.
C8_DuplicateIsNoOp ==
    [][(pcAsm = "recv" /\ frameQ # <<>> /\ Head(frameQ) \in seenFrames
            /\ frameQ' = Tail(frameQ))
        => UNCHANGED <<buffers, bitfields, completed, completed_count, assembledQ,
                       handed>>]_vars

\* the Assembler has just taken, for the second time, a frame of a chunk of two
\* or more frames that is not complete yet
C8_Witness ==
    /\ IsSome(lastDup)
    /\ Get(lastDup).frame_count >= 2
    /\ Get(lastDup).chunk_index \notin completed
    /\ IsSome(bitfields[Get(lastDup).chunk_index])

\* the frames of chunk c the Assembler has not taken
StillMissing(c) ==
    { k \in 0 .. (frames_for_chunk(EncLen(c)) - 1) :
          Frame(c, k, frames_for_chunk(EncLen(c)),
                SubSeq(EncData(c), k * FRAME_PAYLOAD + 1,
                       Min(k * FRAME_PAYLOAD + FRAME_PAYLOAD, EncLen(c))))
              \notin seenFrames }

\* every chunk has been blasted and nothing is in flight or queued any more: no
\* datagram, no frame in the channel or in the Vacuum's hand, no NACK
Quiescent ==
    /\ pcMain = "joinAsm"
    /\ pcAsm = "recv"
    /\ cancelled = 0
    /\ sNext >= chunk_count
    /\ net = {}
    /\ frameQ = <<>>
    /\ vacFrame = None
    /\ nackQ = <<>>

\* C9: every frame that was lost is asked for again: when nothing is in flight any
\* more, the NACK scan names every frame still missing of every chunk that is not
\* complete (a frame it does not name then is never named, for nothing but the scan
\* can happen).
C9_ScanNamesEveryMissingFrame ==
    Quiescent =>
        \A c \in Chunks \ completed :
            \A k \in StillMissing(c) :
                <<c, k>> \in NamedBy(NackScan(bitfields, completed))

\* C10: when the host has cancelled during the transfer and run_receiver has
\* returned, the state word is CANCELLED.
C10_CancelledIsFinal ==
    (cancelInFlight /\ Returned) => state = STATE_CANCELLED

ThirdSubjectPacket ==
    /\ last.kind = "htp"
    /\ IsSome(last.sender)
    /\ IsSome(last.before)
    /\ IsSome(Get(last.before).side_b)
    /\ Get(last.sender) # Get(last.before).side_a[1]
    /\ Get(last.sender) # Get(Get(last.before).side_b)[1]

\* C5: a data packet of a third registered subject on a session that has both
\* sides is forwarded to nobody and leaves the two sides and their addresses as
\* they were.
C5_ThirdSubjectRejected ==
    ThirdSubjectPacket =>
        /\ last.dest = None
        /\ ~last.joined
        /\ ~last.created
        /\ Sides(sessions[last.sid]) = last.before

\* the packet of a third subject has been handled, and nothing was sent for it
C5_Witness ==
    /\ ThirdSubjectPacket
    /\ last.dest = None
    /\ IsSome(clients[last.src])

\* C6: a data packet whose source address has no successful handshake that is
\* still registered is not forwarded, and creates and joins no session.
C6_NoHandshakeNoService ==
    (last.kind = "htp" /\ last.src \notin handshaken) =>
        /\ last.dest = None
        /\ ~last.created
        /\ ~last.joined
        /\ Sides(sessions[last.sid]) = last.before

\* a data packet from an address without a registered handshake was handled for
\* a session that had one side only, which it would have joined
C6_Witness ==
    /\ last.kind = "htp"
    /\ last.src \notin handshaken
    /\ IsSome(last.before)
    /\ ~IsSome(Get(last.before).side_b)
    /\ last.dest = None

\* C7: a handshake that does not carry a valid bearer is answered 0x00 0x00 and
\* leaves no client registered for its address, and a data packet that follows
\* it from the address is not forwarded.
C7_RefusedAddressIsForgotten ==
    /\ (last.kind = "auth" /\ ~IsSome(last.sender)) =>
           /\ last.reply = Some(AUTH_FAIL)
           /\ ~IsSome(clients[last.src])
    /\ (last.kind = "htp" /\ last.after_refusal) => last.dest = None


\* ========================================================== cancellation
ReceiverThreadsDone ==
    /\ pcVac \in {"ok", "err"}
    /\ pcAsm \in {"ok", "err"}
    /\ pcWr \in {"ok", "err"}

SenderThreadsDone == ReaderGone /\ EncryptorGone /\ BlasterGone

C12_DuplicateAckIdempotent ==
    /\ s_chunks_complete = Cardinality(acked)
    /\ s_chunks_complete <= s_chunk_count

\* C13: every chunk that has been blasted and whose ACK has not been observed
\* is still in the retransmit cache
C13_UnackedChunkStaysCached ==
    (blasted \ acked) \subseteq cache

\* an ACKed chunk has been evicted while a blasted chunk without ACK is cached
C13_Witness ==
    /\ \E c \in blasted : c \in acked /\ c \notin cache
    /\ \E d \in blasted : d \notin acked /\ d \in cache

\* C14: the retransmit cache never holds more than SENDER_CACHE_SIZE chunks
C14_CacheBounded ==
    Cardinality(cache) <= SENDER_CACHE_SIZE


\* ---- ChunkBitfield

\* C15: after any calls of set, received_count is the number of set bits and does
\* not exceed frame_count, and is_complete() holds exactly when
\* received_count = frame_count
C15_BitfieldCounts ==
    /\ bitfield.received_count = Cardinality(bitfield.bits)
    /\ bitfield.received_count <= bitfield.frame_count
    /\ is_complete(bitfield) <=> bitfield.received_count = bitfield.frame_count


\* ---- congestion controller

C16_Step ==
    CcUpdateRate =>
        LET qd == queuing_delay(cc)
        IN  /\ (qd = Some(0) /\ rate(cc) < cc.config.max_rate)
                => rate(cc') > rate(cc)
            /\ (/\ IsSome(qd)
                /\ Get(qd) * cc.current_rate > ALPHA * FP * MICROS_PER_SEC
                /\ rate(cc) > cc.config.min_rate)
                => rate(cc') < rate(cc)

\* C16: an update_rate call made with queuing_delay = 0 and the rate below
\* max_rate leaves the rate strictly higher, and one made with
\* queuing_delay > alpha / rate and the rate above min_rate leaves it strictly
\* lower
C16_RateMonotone == [][C16_Step]_vars

\* C17: from construction onwards rate() and the value update_rate returned lie
\* in [min_rate, max_rate]
C17_RateWithinBounds ==
    /\ cc.config.min_rate <= rate(cc) /\ rate(cc) <= cc.config.max_rate
    /\ IsSome(cc_ret) =>
          cc.config.min_rate <= Get(cc_ret) /\ Get(cc_ret) <= cc.config.max_rate


\* ---- HTP transfer

\* C18: no two encrypt calls of one transfer use the same nonce
C18_NoncesDiffer ==
    h_nonce_reuse = 0

\* C19: when run_receiver returns Ok, the output file is the input file, byte
\* for byte, and the total_bytes it reports is the size of the file
C19_ReceivedFileEqualsInput ==
    hr.pc = "ok" =>
        /\ hr.file = InputFile(h_file_size)
        /\ hr.total_bytes = Some(h_file_size)

\* a file of two full packets received after a retransmission, with a packet
\* still on its way as a duplicate
C19_Witness ==
    /\ hr.pc = "ok"
    /\ h_file_size = 2 * MAX_PLAINTEXT_PER_PACKET
    /\ hs.retransmit_count > 0
    /\ h_net # {}
    /\ hr.file = InputFile(h_file_size)


\* ---- retransmission accounting

\* C20: when frames were dropped on first transmission and the transfer has
\* ended with every chunk received, retransmits is the number of dropped frames
C20_RetransmitsEqualDropped ==
    (/\ pcMain = "retOk"
     /\ cancelled = 0
     /\ chunks_written = chunk_count
     /\ dropped > 0) => retransmits = dropped



\* ---- file server: chunk upload

\* C21: an upload_chunk request of the uploader for a chunk whose row is already
\* marked received returns 200 and goes no further: it never reaches the write
\* or the update of the rows.
C21_ReceivedChunkPutSucceeds ==
    \A p \in 1 .. PutSlots :
        (puts[p].pc # "idle" /\ puts[p].sub = "owner" /\ puts[p].already_received)
            => (puts[p].pc = "done" /\ puts[p].ret = OK)

\* the retried PUT of a received chunk of a transfer still uploading: 200
C21_RetryWhileUploading ==
    \E p \in 1 .. PutSlots :
        /\ puts[p].pc = "done" /\ puts[p].sub = "owner" /\ puts[p].already_received
        /\ puts[p].current_status = "uploading"
        /\ puts[p].ret = OK


\* ---- hashes before the offer

\* the hashes of all n chunks of the file, in order
AllChunkHashes(n) == [i \in 1 .. n |-> ChunkHash(i - 1)]

\* C22: whenever hashes_json holds a value, and whenever the upload-start message
\* or the host's offer has been emitted, the chunk hashes it carries are the
\* hashes of every chunk of the file, in order: nothing is published or emitted
\* while a chunk is still to be hashed.
C22_HashesCompleteBeforeOffer ==
    /\ IsSome(s_hashes_json) => Get(s_hashes_json) = AllChunkHashes(s_chunk_count)
    /\ IsSome(upc.hashes_json) =>
           Get(upc.hashes_json) = AllChunkHashes(upc.chunk_count)
    /\ IsSome(upc.start_msg) =>
           Get(upc.start_msg).chunk_hashes = AllChunkHashes(upc.chunk_count)
    /\ IsSome(upc.offer) => Get(upc.offer) = AllChunkHashes(upc.chunk_count)

\* the upload client has hashed a file of several chunks, sent the start message
\* and the host has sent the offer
C22_Witness ==
    /\ upc.chunk_count = MaxUpcChunks
    /\ IsSome(upc.start_msg)
    /\ IsSome(upc.offer)
    /\ Len(Get(upc.offer)) = MaxUpcChunks

\* run_sender has stored the hashes of a file of several chunks while the
\* Blaster is still at work
C22_WitnessSender ==
    /\ IsSome(s_hashes_json)
    /\ s_chunk_count > 1
    /\ ~BlasterGone


\* ---- TCP relay

\* a relayed frame e, queued for or written to connection c, is right: its uid
\* field is the uid of the connection that sent it, the other bytes are those of
\* the frame read, and c belongs to the user the frame read named
TcpRelayedRight(c, e) ==
    /\ uid_field(e.data) = UuidBytes(tcp.conn[e.from].user_id)
    /\ Len(e.data) = Len(e.orig)
    /\ \A k \in 1 .. Len(e.orig) : (k < 2 \/ k > 1 + UID_LEN) => e.data[k] = e.orig[k]
    /\ tcp.conn[c].user_id = UuidFromBytes(uid_field(e.orig))

\* C23: every frame queued for a connection or written to it carries the
\* authenticated uid of the connection it came from in its uid field, is
\* otherwise the frame that was read, and is on a connection of the user that
\* frame named as target.
C23_RelaySwapsUid ==
    \A c \in 1 .. MaxTcpConns :
        /\ \A i \in 1 .. Len(tcp.conn[c].rx) : TcpRelayedRight(c, tcp.conn[c].rx[i])
        /\ \A i \in 1 .. Len(tcp.conn[c].written) :
               TcpRelayedRight(c, tcp.conn[c].written[i])

\* a frame whose uid
\* field named user 2, sent by user 1, has been written to user 2's connection
C23_Witness ==
    \E c \in 1 .. MaxTcpConns :
        /\ tcp.conn[c].user_id = 2
        /\ tcp.conn[c].written # <<>>
        /\ tcp.conn[tcp.conn[c].written[1].from].user_id = 1
        /\ tcp.conn[c].written[1].data # tcp.conn[c].written[1].orig


\* ---- progress counters

\* C24: the bytes_done values the host reads from the progress record of one
\* fast download never decrease from one read to the next.
C24_ObservedNeverDecreases == [][fdl'.observed >= fdl.observed]_vars

\* ---- fast download: NACK path

\* C30: a NACK raised by the receive pipeline of a fast download reaches the
\* server's blast sender: once nack_callback has been given a NACK, a FastNack
\* is eventually handed to the sender's NACK channel.
C30_NackReachesSender == (nackQ # <<>> /\ fdl.pc = "ready") ~> (fdl.srv_nacks > 0)

\* C25: the HTP run_sender returns Ok only when the receiver has received
\* every sequence of the file; before that it returns only on cancellation
\* or error.
C25_OkOnlyWhenAllReceived ==
    hs.pc = "ok" => Cardinality(hr.received) >= total_chunks(h_file_size)


\* every chunk of the file has been blasted / has been ACKed
LastChunkBlasted == blasted = 0 .. (s_chunk_count - 1)
EveryChunkAcked == \A c \in 0 .. (s_chunk_count - 1) : c \in acked

HtpHandled ==
    /\ handled' = handled + 1
    /\ last'.kind = "htp"
    /\ IsSome(last'.sender)

\* C27: a data packet of a registered side of a session, sent from an
\* authenticated address, leaves that address recorded for the side and the
\* other side's address as it was, and it is forwarded to the address recorded
\* for the other side; no other step changes a recorded address. So the address
\* of a side is always the source of its most recent packet, and a packet of
\* the other side goes there and never to a superseded address.
C27_RelayRecordsSource ==
    [][/\ HtpHandled =>
            LET u == Get(last'.sender)
                after == Get(sessions'[last'.sid])
                before == sessions[last'.sid]
            IN  /\ after.side_a[1] = u =>
                      /\ after.side_a = <<u, last'.src>>
                      /\ after.side_b = IF IsSome(before) THEN Get(before).side_b
                                        ELSE None
                      /\ last'.dest = IF IsSome(after.side_b)
                                      THEN Some(Get(after.side_b)[2]) ELSE None
                /\ (IsSome(after.side_b) /\ Get(after.side_b)[1] = u) =>
                      /\ after.side_b = Some(<<u, last'.src>>)
                      /\ after.side_a = Get(before).side_a
                      /\ last'.dest = Some(after.side_a[2])
       /\ \A i \in SessionIds :
            (IsSome(sessions[i]) /\ IsSome(sessions'[i])
                /\ Sides(sessions'[i]) # Sides(sessions[i]))
            => HtpHandled /\ last'.sid = i]_vars

\* side_a of a session with both sides has just sent a packet from another
\* address than the one recorded for it: the new address is recorded, and the
\* packet has gone to side_b
C27_Witness ==
    /\ last.kind = "htp"
    /\ IsSome(last.sender)
    /\ IsSome(last.before)
    /\ IsSome(Get(last.before).side_b)
    /\ Get(last.before).side_a[1] = Get(last.sender)
    /\ Get(last.before).side_a[2] # last.src
    /\ IsSome(sessions[last.sid])
    /\ Get(sessions[last.sid]).side_a = <<Get(last.sender), last.src>>
    /\ last.dest = Some(Get(Get(last.before).side_b)[2])


\* the step is a run of cleanup_stale
CleanupRan == last'.kind = "cleanup" /\ last.kind # "cleanup"

\* C28 as stated: a run of cleanup_stale removes exactly the sessions idle for
\* more than 60 s and the clients idle for more than 120 s.
C28_RemovesIdleLongerThanLimit ==
    [][CleanupRan =>
         /\ \A i \in SessionIds :
              IsSome(sessions[i]) =>
                  /\ IsSome(sessions'[i]) => sessions'[i] = sessions[i]
                  /\ ~IsSome(sessions'[i])
                        <=> Get(sessions[i]).last_activity > SESSION_TIMEOUT_SECS
         /\ \A a \in Addrs :
              IsSome(clients[a]) =>
                  /\ IsSome(clients'[a]) => clients'[a] = clients[a]
                  /\ ~IsSome(clients'[a])
                        <=> Get(clients[a]).last_seen > 2 * SESSION_TIMEOUT_SECS]_vars

\* C28, amended: a run of cleanup_stale removes exactly the sessions idle for
\* 60 s or more and the clients idle for 120 s or more; a session or a client
\* whose idle time is below its limit is kept as it is, and a run adds nothing.
C28_RemovesIdleAtLimit ==
    [][CleanupRan =>
         /\ \A i \in SessionIds :
              /\ IsSome(sessions'[i]) => sessions'[i] = sessions[i]
              /\ IsSome(sessions[i]) =>
                    (~IsSome(sessions'[i])
                        <=> Get(sessions[i]).last_activity >= SESSION_TIMEOUT_SECS)
         /\ \A a \in Addrs :
              /\ IsSome(clients'[a]) => clients'[a] = clients[a]
              /\ IsSome(clients[a]) =>
                    (~IsSome(clients'[a])
                        <=> Get(clients[a]).last_seen >= 2 * SESSION_TIMEOUT_SECS)]_vars

\* a run of cleanup_stale has just ended: a session that was idle for less than
\* its limit is kept as it was, while the client entry of its side_a, idle for
\* the client limit, is gone
C28_Witness ==
    /\ last.kind = "cleanup"
    /\ \E j \in SessionIds :
          /\ IsSome(sessions[j])
          /\ Get(sessions[j]).last_activity > 0
          /\ ~IsSome(clients[Get(sessions[j]).side_a[2]])


\* C29: the Vacuum never blocks on the frame channel: it is never waiting in
\* frame_tx.send with a frame in hand while the channel is full, but drops the
\* frame and goes on with its loop.
C29_VacuumNeverBlocks ==
    ~(pcVac = "send" /\ IsSome(vacFrame) /\ Len(frameQ) >= RingCap)


\* the bytes of sequence seq in the receiver's output file
HtpRegion(seq) ==
    [i \in 1 .. htp_chunk_size(h_file_size, seq) |->
        hr.file[seq * MAX_PLAINTEXT_PER_PACKET + i]]

RECURSIVE HtpBytesOf(_)
HtpBytesOf(S) ==
    IF S = {} THEN 0
    ELSE LET q == CHOOSE x \in S : TRUE
         IN  htp_chunk_size(h_file_size, q) + HtpBytesOf(S \ {q})

\* C31: a packet whose IV or tag does not verify is dropped: the output file
\* holds, for a sequence counted as received, the sender's bytes of that
\* sequence and, for a sequence not counted, no byte written at all; the bytes
\* written are those of the counted sequences; and the lowest sequence not
\* counted, when it is sequence 0 or lies below a counted one, is named by the
\* periodic NACK whatever altered packets have arrived for it.
C31_BadPacketDropped ==
    /\ Len(hr.file) = h_file_size
    /\ hr.bytes_written = HtpBytesOf(hr.received)
    /\ \A seq \in 0 .. total_chunks(h_file_size) - 1 :
          IF seq \in hr.received
          THEN HtpRegion(seq) = ReadAt(InputFile(h_file_size),
                                       seq * MAX_PLAINTEXT_PER_PACKET,
                                       htp_chunk_size(h_file_size, seq))
          ELSE /\ \A i \in 1 .. htp_chunk_size(h_file_size, seq) :
                     HtpRegion(seq)[i] = 0
               /\ ((\A o \in 0 .. seq - 1 : o \in hr.received)
                      /\ (seq = 0 \/ \E r \in hr.received : r > seq))
                     => seq \in HtpMissing(hr.received, total_chunks(h_file_size))

\* altered packets have been dropped, a sequence of a file of two packets is
\* still not received, and the receiver's NACK for it is on its way
C31_Witness ==
    /\ hr.rejects = MaxRejects
    /\ total_chunks(h_file_size) = 2
    /\ \E q \in 0 .. 1 :
          /\ q \notin hr.received
          /\ \E i \in 1 .. Len(h_cmd) :
                h_cmd[i].kind = "Nack" /\ q \in h_cmd[i].seqs


\* the minimum over the samples of the history that are inside the window at
\* time now
WindowMin(c, now) == MinRtt(Prune(c.rtt_history, now - MIN_RTT_WINDOW))

\* C32: whenever update_rate uses min_rtt (the call passes the interval test
\* and finds both RTT values), min_rtt is the minimum over the samples received
\* within the last min_rtt_window.
C32_MinRttIsWindowMin ==
    [][(cc'.last_update # cc.last_update /\ IsSome(queuing_delay(cc)))
          => cc.min_rtt = WindowMin(cc, cc_now)]_vars


\* the value the sender would load from last_acked lets it leave the wait
WindowOpen ==
    \/ cli.last_acked = I64_MAX
    \/ cli.chunk_index - cli.last_acked < SEND_WINDOW

\* C33: once the control reader has stored the CANCEL sentinel, or an ACK that
\* opens the window, and has called notify_waiters, the sender is not left in
\* the flow-control wait.
C33_WaitingSenderIsWoken ==
    ~(/\ cli.s_pc = "waiting"
      /\ ~cli.woken
      /\ cli.rd_pc = "idle"
      /\ cli.back = <<>>
      /\ WindowOpen)


\* C38: the receiver of a TCP fallback transfer reports transfer-complete only
\* when it has written every chunk 0 .. n-1 of the file once and in ascending
\* order.
C38_CompleteOnlyWhenAllWritten ==
    cli.r_pc = "complete" => cli.written = [i \in 1 .. cli.n |-> i - 1]


\* C34: when run_sender returns Ok, every sequence of the file that it has read
\* in a Nack command has been sent again as a retransmission since; and no
\* sequence is left in pending_nacks once the last new packet has been sent.
C34_NackedIsRetransmitted ==
    /\ hs.pc = "ok" =>
          { q \in hs.owed : q < total_chunks(h_file_size) } = {}
    /\ hs.pc \in {"drain", "ok"} => hs.pending_nacks = {}

\* Ok after retransmissions in phase 1 and in phase 2
C34_Witness ==
    /\ hs.pc = "ok"
    /\ hs.retransmit_count >= 2
    /\ hs.owed = {}
    /\ \E p \in h_net : p.flags = {"RETRANSMIT"}
    /\ \E p \in h_net : "RETRANSMIT" \in p.flags /\ p.flags # {"RETRANSMIT"}


\* C35: the Assembler does not panic on the frame it takes from the channel,
\* whatever frame_index, frame_count and payload length its header carries.
C35_AssemblerNeverPanics ==
    ~(pcAsm = "recv" /\ frameQ # <<>> /\ AsmPanics(Head(frameQ)))


\* C36: the Blaster's pacing rate stays above 0 and at or below the initial
\* rate, and every chunk is blasted with pacing on.
C36_RateStaysPositive ==
    /\ pace.rate_bps > 0
    /\ pace.rate_bps <= INITIAL_RATE_BPS
    /\ pace.paced


\* C37: the latest connection a user has authenticated on, while it is open, is
\* the one registered for delivery to that user: the end of an older connection
\* of the same user does not remove its registration.
C37_NewerStaysRegistered ==
    \A c \in 1 .. MaxTcpConns :
        (/\ tcp.conn[c].st = "open"
         /\ \A d \in (c + 1) .. MaxTcpConns :
                tcp.conn[d].user_id # tcp.conn[c].user_id)
        => tcp.connections[tcp.conn[c].user_id] = c


\* C39: once the transfer is 'expired' or 'confirmed' and its file deleted, no
\* step sets its status to 'complete'.
C39_DeletedStaysDeleted ==
    [][(fsrv.status \in {"expired", "confirmed"} /\ fsrv.file = None)
          => fsrv'.status # "complete"]_vars


\* C40: once the transfer thread of a session has finished and the call that
\* started it has returned, the session is not in the table, and htp_progress
\* asked from then on finds no entry.
C40_FinishedSessionIsRemoved ==
    \A i \in FfiIds :
        (ffi.thread[i] = "done" /\ ffi.call[i] = "returned")
        => i \notin ffi.sessions

====
